---------------------------- MODULE Spec2Model ----------------------------
(***************************************************************************)
(* Model of the eSAF techno-economic engine, class eSAF_TEA_Model of       *)
(* Levelized_Cost_of_eSAF.py: the five parameter dictionaries, the current *)
(* results, the setters, calculate_tea, the two sensitivity sweeps and the *)
(* breakeven analyzer.                                                     *)
(*                                                                         *)
(* Numbers.  Python floats are modelled as exact rationals <<n, d>> in     *)
(* lowest terms with d > 0; every arithmetic expression of the source is   *)
(* evaluated in the order the source writes it.  A Python division raises  *)
(* ZeroDivisionError when the divisor is zero; the model tests the divisor *)
(* at the place of each division and raises there.                         *)
(*                                                                         *)
(* Dictionaries.  A Python dict is a function from key strings to values;  *)
(* the empty dict is the function with empty domain, and a dict that holds *)
(* only some keys is a function with a smaller domain.                     *)
(*                                                                         *)
(* Calls.  The interpreter is single threaded: one public method runs at a *)
(* time.  pc = "idle" means no call is active.  A call ends at pc = "done" *)
(* with its outcome (returned value or raised exception); Return gives     *)
(* control back to the caller and clears the frame.                        *)
(***************************************************************************)
EXTENDS Integers, Sequences, FiniteSets, TLC

VARIABLES
    economic_parameters,      \* self.economic_parameters
    dac_cost_data,            \* self.dac_cost_data
    electrolysis_cost_data,   \* self.electrolysis_cost_data
    ft_synthesis_cost_data,   \* self.ft_synthesis_cost_data
    distribution_cost_data,   \* self.distribution_cost_data
    results,                  \* self.results
    returned_results,         \* the dict the caller holds from calculate_tea
    pc,                       \* position of the running call
    frame,                    \* arguments and locals of the running call
    pre,                      \* object state when the running call was entered
    outcome                   \* how the call ended

vars == <<economic_parameters, dac_cost_data, electrolysis_cost_data,
          ft_synthesis_cost_data, distribution_cost_data, results,
          returned_results, pc, frame, pre, outcome>>

params == <<economic_parameters, dac_cost_data, electrolysis_cost_data,
            ft_synthesis_cost_data, distribution_cost_data>>

-----------------------------------------------------------------------------
(* Exact rational arithmetic standing for Python float arithmetic.         *)
(*                                                                         *)
(* A number has one of two forms.  The narrow form <<n, d>> holds the      *)
(* numerator and the denominator as integers, in lowest terms.  The wide   *)
(* form <<sign, num, den>> holds them as naturals of any size, written as  *)
(* sequences of digits to the base 1000, lowest digit first, the sequence  *)
(* <<>> being 0; common factors 2 and 5 are cancelled, other common        *)
(* factors may remain, so two wide numbers are compared with RLeq and REq, *)
(* never with =.  An operation with a wide operand has a wide value.  The  *)
(* magnitudes of the setters' default arguments need the wide form.        *)

Abs(n) == IF n < 0 THEN -n ELSE n

RECURSIVE GCD(_, _)
GCD(a, b) == IF b = 0 THEN a ELSE GCD(b, a % b)

\* digits of the natural n
RECURSIVE NatToBig(_)
NatToBig(n) == IF n = 0 THEN <<>> ELSE <<n % 1000>> \o NatToBig(n \div 1000)

BigDigit(a, i) == IF i <= Len(a) THEN a[i] ELSE 0

\* a without zero digits at its high end
RECURSIVE BigTrim(_)
BigTrim(a) ==
    IF a = <<>> \/ a[Len(a)] # 0 THEN a ELSE BigTrim(SubSeq(a, 1, Len(a) - 1))

\* the digits of the number whose i-th column holds s[i], from column i on,
\* with carry c coming in (columns may be negative or above 999)
RECURSIVE BigCarry(_, _, _)
BigCarry(s, i, c) ==
    IF i > Len(s)
    THEN NatToBig(c)
    ELSE LET v == s[i] + c
         IN  <<v % 1000>> \o BigCarry(s, i + 1, v \div 1000)

\* -1, 0, 1 as a < b, a = b, a > b, comparing from digit i downwards
RECURSIVE BigCmpFrom(_, _, _)
BigCmpFrom(a, b, i) ==
    IF i = 0 THEN 0
    ELSE IF a[i] < b[i] THEN -1
    ELSE IF a[i] > b[i] THEN 1
    ELSE BigCmpFrom(a, b, i - 1)

BigCmp(a, b) ==
    IF Len(a) < Len(b) THEN -1
    ELSE IF Len(a) > Len(b) THEN 1
    ELSE BigCmpFrom(a, b, Len(a))

\* s * (sa * a + sb * b) for signs s, sa, sb that make it a natural number
BigSum(s, sa, a, sb, b) ==
    BigTrim(BigCarry([i \in 1..(IF Len(a) > Len(b) THEN Len(a) ELSE Len(b)) |->
                         s * (sa * BigDigit(a, i) + sb * BigDigit(b, i))], 1, 0))

\* sum of a[i] * b[k + 1 - i] for i in lo..hi
RECURSIVE BigColumn(_, _, _, _, _)
BigColumn(a, b, k, lo, hi) ==
    IF lo > hi THEN 0
    ELSE a[lo] * b[k + 1 - lo] + BigColumn(a, b, k, lo + 1, hi)

BigMul(a, b) ==
    IF a = <<>> \/ b = <<>> THEN <<>>
    ELSE BigCarry([k \in 1..(Len(a) + Len(b) - 1) |->
                      BigColumn(a, b, k,
                                IF k > Len(b) THEN k + 1 - Len(b) ELSE 1,
                                IF k < Len(a) THEN k ELSE Len(a))], 1, 0)

\* a * m / 1000 for a digit m such that 1000 divides a * m
BigScaleDown(a, m) == Tail(BigCarry([i \in 1..Len(a) |-> a[i] * m], 1, 0))

\* the pair c = <<num, den>> with the common factor p cancelled as often as
\* num and den have it, p = 2, 5; num, den /= 0
RECURSIVE BigCancel(_, _)
BigCancel(c, p) ==
    IF c[1][1] % p = 0 /\ c[2][1] % p = 0
    THEN BigCancel(<<BigScaleDown(c[1], 1000 \div p), BigScaleDown(c[2], 1000 \div p)>>, p)
    ELSE c

WideOf(sign, c) == <<sign, c[1], c[2]>>

\* the wide number sign * num / den, den /= 0
Wide(sign, num, den) ==
    IF num = <<>> THEN <<1, <<>>, <<1>>>>
    ELSE WideOf(sign, BigCancel(BigCancel(<<num, den>>, 2), 5))

IsWide(a) == Len(a) = 3

Widen(a) ==
    IF IsWide(a) THEN a
    ELSE <<IF a[1] < 0 THEN -1 ELSE 1, NatToBig(Abs(a[1])), NatToBig(a[2])>>

\* sa * na / den + sb * nb / den, a number of the sign s
WideSumOfSign(s, sa, na, sb, nb, den) == Wide(s, BigSum(s, sa, na, sb, nb), den)

\* sa * na / den + sb * nb / den
WideSum(sa, na, sb, nb, den) ==
    WideSumOfSign(IF sa = sb \/ BigCmp(na, nb) >= 0 THEN sa ELSE sb, sa, na, sb, nb, den)

\* sa * p[1] / p[3] + sb * p[2] / p[3]
WideSumOver(sa, sb, p) == WideSum(sa, p[1], sb, p[2], p[3])

\* over a common denominator, which is a[3] * b[3] unless both have the same
WideAdd(a, b) ==
    WideSumOver(a[1], b[1],
                IF a[3] = b[3] THEN <<a[2], b[2], a[3]>>
                ELSE [k \in 1..3 |-> BigMul(<<a[2], b[2], a[3]>>[k], <<b[3], a[3], b[3]>>[k])])

\* sign * p[1] / p[2]
WideOver(sign, p) == Wide(sign, p[1], p[2])

WideMul(a, b) ==
    WideOver(a[1] * b[1], [k \in 1..2 |-> BigMul(<<a[2], a[3]>>[k], <<b[2], b[3]>>[k])])

\* n/d in lowest terms for the greatest common divisor g of n and d, d /= 0
RBy(n, d, g) ==
    IF d < 0 THEN <<(-n) \div g, (-d) \div g>> ELSE <<n \div g, d \div g>>

\* The rational n/d in lowest terms, d /= 0.
R(n, d) == RBy(n, d, GCD(Abs(n), Abs(d)))

RInt(n) == <<n, 1>>

IsZero(a) == IF IsWide(a) THEN a[2] = <<>> ELSE a[1] = 0

RNeg(a) ==
    IF IsWide(a) THEN (IF a[2] = <<>> THEN a ELSE <<-a[1], a[2], a[3]>>)
    ELSE <<-a[1], a[2]>>

\* a + b over the least common denominator, g the greatest common divisor
\* of the two denominators
RAddBy(a, b, g) == R(a[1] * (b[2] \div g) + b[1] * (a[2] \div g), (a[2] \div g) * b[2])

RAdd(a, b) ==
    IF IsWide(a) \/ IsWide(b) THEN WideAdd(Widen(a), Widen(b))
    ELSE RAddBy(a, b, GCD(a[2], b[2]))

RSub(a, b) == RAdd(a, RNeg(b))

\* a * b, g1 and g2 the greatest common divisors across the fraction bars
RMulBy(a, b, g1, g2) == <<(a[1] \div g1) * (b[1] \div g2), (a[2] \div g2) * (b[2] \div g1)>>

RMul(a, b) ==
    IF IsWide(a) \/ IsWide(b) THEN WideMul(Widen(a), Widen(b))
    ELSE RMulBy(a, b, GCD(Abs(a[1]), b[2]), GCD(Abs(b[1]), a[2]))

\* 1/a, a /= 0
RInv(a) ==
    IF IsWide(a) THEN <<a[1], a[3], a[2]>>
    ELSE IF a[1] < 0 THEN <<-a[2], -a[1]>> ELSE <<a[2], a[1]>>

\* a / b, b /= 0 (the caller raises ZeroDivisionError before, when b = 0)
RDiv(a, b) == RMul(a, RInv(b))

\* acc * a^n; each product is computed before the next one is started
RECURSIVE RPowFrom(_, _, _)
RPowFrom(a, n, acc) ==
    IF n = 0 THEN acc
    ELSE LET next == RMul(acc, a)
         IN  IF IsZero(next) THEN next ELSE RPowFrom(a, n - 1, next)

RPowNat(a, n) == RPowFrom(a, n, RInt(1))

\* a ** n for an integer n, a /= 0 when n < 0
RPow(a, n) == IF n >= 0 THEN RPowNat(a, n) ELSE RInv(RPowNat(a, -n))

\* b - a is not negative
RLeq(a, b) ==
    IF IsWide(a) \/ IsWide(b) THEN RSub(b, a)[1] = 1
    ELSE a[1] * b[2] <= b[1] * a[2]

\* a and b are the same number, whatever their forms
REq(a, b) == IsZero(RSub(a, b))

-----------------------------------------------------------------------------
(* Dictionaries                                                            *)

EmptyDict == [k \in {} |-> 0]

\* d[key] = value on a dict that may or may not hold the key
DictSet(d, key, value) ==
    [k \in DOMAIN d \cup {key} |-> IF k = key THEN value ELSE d[k]]

\* d.get(key, default)
DictGet(d, key, default) == IF key \in DOMAIN d THEN d[key] ELSE default

\* truth value of a dict: it is not empty
Truthy(d) == DOMAIN d # {}

\* exceptions: the type and the names the exception's message carries
Exception(type, names) == [type |-> type, names |-> names]

Raise(exc) == [ok |-> FALSE, exc |-> exc]
Ok(value) == [ok |-> TRUE, value |-> value]

\* the first key of the sequence keys that d does not hold ("" when none)
RECURSIVE FirstMissing(_, _)
FirstMissing(d, keys) ==
    IF keys = <<>> THEN ""
    ELSE IF Head(keys) \notin DOMAIN d THEN Head(keys)
    ELSE FirstMissing(d, Tail(keys))

-----------------------------------------------------------------------------
(* Fixed numbers of the source                                             *)

kg_per_tonne == 1000
energy_density == 43
hours_per_year == 8760
\* 3.6 MJ per kWh
mj_per_kwh == R(18, 5)
percent == 100
\* fuel_density = 0.8 kg/L of calculate_breakeven_fuel_price
breakeven_fuel_density == R(4, 5)
emission_difference == 89
\* defaults of the .get() calls of the sweeps
default_electricity_cost == R(1, 20)
default_plant_capacity == 100000

-----------------------------------------------------------------------------
(* Capital recovery factor                                                 *)

\* a variant whose general branch drops the factor (1+r)^n of the numerator
calculate_crf_without_growth(discount_rate, lifetime) ==
    IF IsZero(discount_rate)
    THEN IF lifetime = 0
         THEN Raise(Exception("ZeroDivisionError", {}))
         ELSE Ok(RDiv(RInt(1), RInt(lifetime)))
    ELSE LET growth == RPow(RAdd(RInt(1), discount_rate), lifetime)
         IN  IF IsZero(RSub(growth, RInt(1)))
             THEN Raise(Exception("ZeroDivisionError", {}))
             ELSE Ok(RDiv(discount_rate, RSub(growth, RInt(1))))

\* _calculate_crf(discount_rate, lifetime): lifetime is an integer
calculate_crf(discount_rate, lifetime) ==
    IF IsZero(discount_rate)
    THEN IF lifetime = 0
         THEN Raise(Exception("ZeroDivisionError", {}))
         ELSE Ok(RDiv(RInt(1), RInt(lifetime)))
    ELSE IF IsZero(RAdd(RInt(1), discount_rate)) /\ lifetime < 0
         THEN Raise(Exception("ZeroDivisionError", {}))
    ELSE LET growth == RPow(RAdd(RInt(1), discount_rate), lifetime)
         IN  IF IsZero(RSub(growth, RInt(1)))
             THEN Raise(Exception("ZeroDivisionError", {}))
             ELSE Ok(RDiv(RMul(discount_rate, growth), RSub(growth, RInt(1))))

-----------------------------------------------------------------------------
(* calculate_tea                                                           *)

EconKeys == <<"plant_capacity_tpy", "capacity_factor", "crf">>
DacKeys == <<"co2_capture_rate", "capex_per_tco2", "opex_fixed_percent",
             "electricity_consumption", "electricity_cost", "heat_consumption",
             "heat_cost", "water_consumption", "water_cost">>
ElecKeys == <<"syngas_requirement", "co_h2_ratio", "energy_input_co",
              "energy_input_h2", "capex_co_per_kw", "capex_h2_per_kw",
              "opex_fixed_percent", "electricity_cost", "water_consumption",
              "water_cost", "catalyst_consumption", "catalyst_cost">>
FtKeys == <<"capex_per_tpy", "opex_fixed_percent", "maintenance_percent",
            "catalyst_cost", "catalyst_lifetime", "energy_input", "heat_cost",
            "cooling_cost", "water_consumption", "water_cost">>
DistKeys == <<"transport_distance", "transport_cost_per_tkm", "storage_cost",
              "blending_cost">>

\* a variant that takes the nameplate capacity for the actual production
ActualProductionAtNameplate(annual_production, capacity_factor) == annual_production

\* actual_annual_production (line 367)
ActualProduction(annual_production, capacity_factor) ==
    RMul(annual_production, capacity_factor)

\* lines 356-381, from the design CO2 demand and the actual CO2 capture
DacCosts(annual_co2_needed, actual_co2_capture, crf, dac_data) ==
    LET dac_capex_total ==
            RMul(RDiv(annual_co2_needed, RInt(kg_per_tonne)), dac_data["capex_per_tco2"])
        dac_capex_annual == RMul(dac_capex_total, crf)
        dac_opex_fixed ==
            RDiv(RMul(dac_capex_total, dac_data["opex_fixed_percent"]), RInt(percent))
        dac_electricity_cost ==
            RMul(RDiv(RMul(actual_co2_capture, dac_data["electricity_consumption"]), mj_per_kwh),
                 dac_data["electricity_cost"])
        dac_heat_cost ==
            RMul(RDiv(RMul(actual_co2_capture, dac_data["heat_consumption"]), mj_per_kwh),
                 dac_data["heat_cost"])
        dac_water_cost ==
            RMul(RMul(actual_co2_capture, dac_data["water_consumption"]), dac_data["water_cost"])
    IN  [capex_total |-> dac_capex_total,
         capex_annual |-> dac_capex_annual,
         opex_fixed |-> dac_opex_fixed,
         electricity_cost |-> dac_electricity_cost,
         heat_cost |-> dac_heat_cost,
         water_cost |-> dac_water_cost,
         total_annual |->
            RAdd(RAdd(RAdd(RAdd(dac_capex_annual, dac_opex_fixed), dac_electricity_cost),
                      dac_heat_cost), dac_water_cost)]

\* a variant that sizes the capture plant on the CO2 actually captured
DacStageSizedOnActual(annual_production, capacity_factor, crf, dac_data) ==
    DacCosts(
        RMul(RMul(ActualProduction(annual_production, capacity_factor), RInt(kg_per_tonne)),
             dac_data["co2_capture_rate"]),
        RMul(RMul(ActualProduction(annual_production, capacity_factor), RInt(kg_per_tonne)),
             dac_data["co2_capture_rate"]),
        crf, dac_data)

\* 1. DAC stage (lines 350-381)
DacStage(annual_production, capacity_factor, crf, dac_data) ==
    DacCosts(
        \* annual_co2_needed, design capacity (line 352)
        RDiv(RMul(RMul(annual_production, RInt(kg_per_tonne)), dac_data["co2_capture_rate"]),
             capacity_factor),
        \* actual_co2_capture (line 368)
        RMul(RMul(ActualProduction(annual_production, capacity_factor), RInt(kg_per_tonne)),
             dac_data["co2_capture_rate"]),
        crf, dac_data)

\* lines 403-420, from the two sub-streams
ElectrolysisCosts(syngas_needed, co_needed, h2_needed, actual_annual_production, capacity_factor, crf, elec_data) ==
    LET co_power_needed ==
            RDiv(RDiv(RDiv(RMul(co_needed, elec_data["energy_input_co"]), mj_per_kwh),
                      RInt(hours_per_year)), capacity_factor)
        h2_power_needed ==
            RDiv(RDiv(RDiv(RMul(h2_needed, elec_data["energy_input_h2"]), mj_per_kwh),
                      RInt(hours_per_year)), capacity_factor)
        elec_capex_co == RMul(co_power_needed, elec_data["capex_co_per_kw"])
        elec_capex_h2 == RMul(h2_power_needed, elec_data["capex_h2_per_kw"])
        elec_electricity_cost ==
            RMul(RDiv(RAdd(RMul(co_needed, elec_data["energy_input_co"]),
                           RMul(h2_needed, elec_data["energy_input_h2"])), mj_per_kwh),
                 elec_data["electricity_cost"])
        elec_water_cost ==
            RMul(RMul(syngas_needed, elec_data["water_consumption"]), elec_data["water_cost"])
        elec_catalyst_cost ==
            RMul(RMul(RMul(actual_annual_production, RInt(kg_per_tonne)),
                      elec_data["catalyst_consumption"]), elec_data["catalyst_cost"])
    IN  [syngas_needed |-> syngas_needed,
         co_needed |-> co_needed,
         h2_needed |-> h2_needed,
         capex_co |-> elec_capex_co,
         capex_h2 |-> elec_capex_h2,
         electricity_cost |-> elec_electricity_cost,
         water_cost |-> elec_water_cost,
         catalyst_cost |-> elec_catalyst_cost]

\* lines 409-420: the two CAPEX amounts are added, then annualized
ElectrolysisTotals(c, crf, elec_data) ==
    [syngas_needed |-> c.syngas_needed,
     co_needed |-> c.co_needed,
     h2_needed |-> c.h2_needed,
     capex_total |-> RAdd(c.capex_co, c.capex_h2),
     capex_annual |-> RMul(RAdd(c.capex_co, c.capex_h2), crf),
     opex_fixed |->
        RDiv(RMul(RAdd(c.capex_co, c.capex_h2), elec_data["opex_fixed_percent"]),
             RInt(percent)),
     total_annual |->
        RAdd(RAdd(RAdd(RAdd(RMul(RAdd(c.capex_co, c.capex_h2), crf),
                            RDiv(RMul(RAdd(c.capex_co, c.capex_h2),
                                      elec_data["opex_fixed_percent"]), RInt(percent))),
                       c.electricity_cost), c.water_cost), c.catalyst_cost)]

\* a variant that takes the ratio as the CO share of the syngas
ElectrolysisSplitByShare(syngas_needed, actual_annual_production, capacity_factor, crf, elec_data) ==
    ElectrolysisTotals(
        ElectrolysisCosts(
            syngas_needed,
            RMul(syngas_needed, elec_data["co_h2_ratio"]),
            RMul(syngas_needed, RSub(RInt(1), elec_data["co_h2_ratio"])),
            actual_annual_production, capacity_factor, crf, elec_data),
        crf, elec_data)

\* lines 392-398: the syngas requirement and its split by the CO:H2 mass ratio
ElectrolysisSplit(syngas_needed, actual_annual_production, capacity_factor, crf, elec_data) ==
    ElectrolysisTotals(
        ElectrolysisCosts(
            syngas_needed,
            RMul(syngas_needed,
                 RDiv(elec_data["co_h2_ratio"], RAdd(RInt(1), elec_data["co_h2_ratio"]))),
            RMul(syngas_needed,
                 RDiv(RInt(1), RAdd(RInt(1), elec_data["co_h2_ratio"]))),
            actual_annual_production, capacity_factor, crf, elec_data),
        crf, elec_data)

\* 2. electrolysis stage (lines 391-420)
ElectrolysisStage(annual_production, capacity_factor, crf, elec_data) ==
    ElectrolysisSplit(
        RMul(RMul(ActualProduction(annual_production, capacity_factor), RInt(kg_per_tonne)),
             elec_data["syngas_requirement"]),
        ActualProduction(annual_production, capacity_factor),
        capacity_factor, crf, elec_data)

\* lines 427-440, from the total CAPEX and the actual fuel mass in kg
FtCosts(ft_capex_total, actual_fuel_production, crf, ft_data) ==
    LET ft_capex_annual == RMul(ft_capex_total, crf)
        ft_opex_fixed ==
            RDiv(RMul(ft_capex_total, ft_data["opex_fixed_percent"]), RInt(percent))
        ft_maintenance ==
            RDiv(RMul(ft_capex_total, ft_data["maintenance_percent"]), RInt(percent))
        ft_catalyst_annual ==
            RDiv(RMul(ft_capex_total, ft_data["catalyst_cost"]), ft_data["catalyst_lifetime"])
        ft_heat_cost ==
            RMul(RDiv(RMul(actual_fuel_production, ft_data["energy_input"]), mj_per_kwh),
                 ft_data["heat_cost"])
        ft_cooling_cost ==
            RMul(RDiv(RDiv(RMul(actual_fuel_production, ft_data["energy_input"]), mj_per_kwh),
                      RInt(2)), ft_data["cooling_cost"])
        ft_water_cost ==
            RMul(RMul(actual_fuel_production, ft_data["water_consumption"]), ft_data["water_cost"])
    IN  [capex_total |-> ft_capex_total,
         capex_annual |-> ft_capex_annual,
         total_annual |->
            RAdd(RAdd(RAdd(RAdd(RAdd(RAdd(ft_capex_annual, ft_opex_fixed), ft_maintenance),
                                ft_catalyst_annual), ft_heat_cost), ft_cooling_cost),
                 ft_water_cost)]

\* a variant whose synthesis plant has one price whatever its capacity
FtStageAtOnePlantPrice(annual_production, capacity_factor, crf, ft_data) ==
    FtCosts(ft_data["capex_per_tpy"],
            RMul(ActualProduction(annual_production, capacity_factor), RInt(kg_per_tonne)),
            crf, ft_data)

\* 3. FT synthesis stage (lines 423-440)
FtStage(annual_production, capacity_factor, crf, ft_data) ==
    FtCosts(RMul(annual_production, ft_data["capex_per_tpy"]),
            RMul(ActualProduction(annual_production, capacity_factor), RInt(kg_per_tonne)),
            crf, ft_data)

\* a variant that takes storage and blending per tonne-kilometre too
DistributionStagePerDistance(actual_annual_production, dist_data) ==
    [total_annual |->
        RMul(RMul(actual_annual_production, dist_data["transport_distance"]),
             RAdd(RAdd(dist_data["transport_cost_per_tkm"], dist_data["storage_cost"]),
                  dist_data["blending_cost"]))]

\* 4. distribution stage (lines 443-450)
DistributionStage(actual_annual_production, dist_data) ==
    [total_annual |->
        RAdd(RAdd(RMul(RMul(actual_annual_production, dist_data["transport_distance"]),
                       dist_data["transport_cost_per_tkm"]),
                  RMul(actual_annual_production, dist_data["storage_cost"])),
             RMul(actual_annual_production, dist_data["blending_cost"]))]

\* levelized_cost = total_annual_cost / total_annual_production_mj (line 463)
LevelizedCost(total_annual_cost, total_annual_production_mj) ==
    RDiv(total_annual_cost, total_annual_production_mj)

\* a variant whose DAC entry of opex_breakdown is the whole DAC cost
AggregateDacOpexWithCapex(dac, elec, ft, dist, actual_annual_production, total_annual_cost, total_annual_production_mj) ==
    [capex_breakdown |->
        [dac |-> dac.capex_annual,
         electrolysis |-> elec.capex_annual,
         ft_synthesis |-> ft.capex_annual,
         distribution |-> RInt(0),
         total |-> RAdd(RAdd(dac.capex_annual, elec.capex_annual), ft.capex_annual)],
     opex_breakdown |->
        [dac |-> dac.total_annual,
         electrolysis |-> RSub(elec.total_annual, elec.capex_annual),
         ft_synthesis |-> RSub(ft.total_annual, ft.capex_annual),
         distribution |-> dist.total_annual,
         total |-> RAdd(RAdd(RAdd(dac.total_annual,
                                  RSub(elec.total_annual, elec.capex_annual)),
                             RSub(ft.total_annual, ft.capex_annual)),
                        dist.total_annual)],
     total_costs |->
        [dac |-> dac.total_annual,
         electrolysis |-> elec.total_annual,
         ft_synthesis |-> ft.total_annual,
         distribution |-> dist.total_annual,
         total |-> total_annual_cost],
     levelized_cost |-> LevelizedCost(total_annual_cost, total_annual_production_mj),
     annual_production_mj |-> total_annual_production_mj,
     annual_production_tonnes |-> actual_annual_production]

\* 5. totals and the Results dict (lines 458-491)
Aggregate(dac, elec, ft, dist, actual_annual_production, total_annual_cost, total_annual_production_mj) ==
    [capex_breakdown |->
        [dac |-> dac.capex_annual,
         electrolysis |-> elec.capex_annual,
         ft_synthesis |-> ft.capex_annual,
         distribution |-> RInt(0),
         total |-> RAdd(RAdd(dac.capex_annual, elec.capex_annual), ft.capex_annual)],
     opex_breakdown |->
        [dac |-> RSub(dac.total_annual, dac.capex_annual),
         electrolysis |-> RSub(elec.total_annual, elec.capex_annual),
         ft_synthesis |-> RSub(ft.total_annual, ft.capex_annual),
         distribution |-> dist.total_annual,
         total |-> RAdd(RAdd(RAdd(RSub(dac.total_annual, dac.capex_annual),
                                  RSub(elec.total_annual, elec.capex_annual)),
                             RSub(ft.total_annual, ft.capex_annual)),
                        dist.total_annual)],
     total_costs |->
        [dac |-> dac.total_annual,
         electrolysis |-> elec.total_annual,
         ft_synthesis |-> ft.total_annual,
         distribution |-> dist.total_annual,
         total |-> total_annual_cost],
     levelized_cost |-> LevelizedCost(total_annual_cost, total_annual_production_mj),
     annual_production_mj |-> total_annual_production_mj,
     annual_production_tonnes |-> actual_annual_production]

\* a variant whose total_annual_cost leaves the distribution stage out
AggregateStagesWithoutDistribution(dac, elec, ft, dist, actual_annual_production) ==
    Aggregate(dac, elec, ft, dist, actual_annual_production,
              RAdd(RAdd(dac.total_annual, elec.total_annual), ft.total_annual),
              RMul(RMul(actual_annual_production, RInt(kg_per_tonne)),
                   RInt(energy_density)))

\* total_annual_cost (line 458) and total_annual_production_mj (line 459)
AggregateStages(dac, elec, ft, dist, actual_annual_production) ==
    Aggregate(dac, elec, ft, dist, actual_annual_production,
              RAdd(RAdd(RAdd(dac.total_annual, elec.total_annual), ft.total_annual),
                   dist.total_annual),
              RMul(RMul(actual_annual_production, RInt(kg_per_tonne)),
                   RInt(energy_density)))

\* the Results of lines 332-491 when no statement of them raises
TeaResults(econ, dac_data, elec_data, ft_data, dist_data) ==
    AggregateStages(
        DacStage(econ["plant_capacity_tpy"], econ["capacity_factor"], econ["crf"], dac_data),
        ElectrolysisStage(econ["plant_capacity_tpy"], econ["capacity_factor"], econ["crf"],
                          elec_data),
        FtStage(econ["plant_capacity_tpy"], econ["capacity_factor"], econ["crf"], ft_data),
        DistributionStage(ActualProduction(econ["plant_capacity_tpy"],
                                           econ["capacity_factor"]), dist_data),
        ActualProduction(econ["plant_capacity_tpy"], econ["capacity_factor"]))

KeyError(d, keys) == Raise(Exception("KeyError", {FirstMissing(d, keys)}))

\* not all([...]) of lines 320-322
MissingData(econ, dac_data, elec_data, ft_data, dist_data) ==
    ~(Truthy(econ) /\ Truthy(dac_data) /\ Truthy(elec_data) /\ Truthy(ft_data)
      /\ Truthy(dist_data))

\* calculate_tea on the given dictionaries: Ok(Results) or the exception that
\* the first failing statement raises.  The tests follow the statement order:
\* 320 (all), 332-334, 351, 352 (/ capacity_factor), 356-379, 392-418,
\* 426-438 (/ catalyst_lifetime at 434), 446-448, 463 (/ production).
CalculateTea(econ, dac_data, elec_data, ft_data, dist_data) ==
    IF MissingData(econ, dac_data, elec_data, ft_data, dist_data)
    THEN Raise(Exception("ValueError", {}))
    ELSE IF FirstMissing(econ, EconKeys) # "" THEN KeyError(econ, EconKeys)
    ELSE IF "co2_capture_rate" \notin DOMAIN dac_data THEN KeyError(dac_data, DacKeys)
    ELSE IF IsZero(econ["capacity_factor"]) THEN Raise(Exception("ZeroDivisionError", {}))
    ELSE IF FirstMissing(dac_data, DacKeys) # "" THEN KeyError(dac_data, DacKeys)
    ELSE IF FirstMissing(elec_data, SubSeq(ElecKeys, 1, 2)) # "" THEN KeyError(elec_data, ElecKeys)
    ELSE IF IsZero(RAdd(RInt(1), elec_data["co_h2_ratio"]))
         THEN Raise(Exception("ZeroDivisionError", {}))
    ELSE IF FirstMissing(elec_data, ElecKeys) # "" THEN KeyError(elec_data, ElecKeys)
    ELSE IF FirstMissing(ft_data, FtKeys) # "" THEN KeyError(ft_data, FtKeys)
    ELSE IF IsZero(ft_data["catalyst_lifetime"]) THEN Raise(Exception("ZeroDivisionError", {}))
    ELSE IF FirstMissing(dist_data, DistKeys) # "" THEN KeyError(dist_data, DistKeys)
    ELSE IF IsZero(RMul(RMul(RMul(econ["plant_capacity_tpy"], econ["capacity_factor"]),
                             RInt(kg_per_tonne)), RInt(energy_density)))
         THEN Raise(Exception("ZeroDivisionError", {}))
    ELSE Ok(TeaResults(econ, dac_data, elec_data, ft_data, dist_data))

-----------------------------------------------------------------------------
(* Inputs of the public methods                                            *)

\* longest list of values a sweep is called with
MaxSweepLen == 2

DiscountRates == {R(0, 1), R(1, 2)}
Lifetimes == {-1, 0, 2}
CapacityFactors == {R(0, 1), R(1, 2)}
PlantCapacities == {RInt(0), RInt(1)}

\* (discount_rate, project_lifetime, capacity_factor, plant_capacity_tpy)
EconomicInputs == DiscountRates \X Lifetimes \X CapacityFactors \X PlantCapacities

DacInputs ==
    { [capex_per_tco2 |-> RInt(4), opex_fixed_percent |-> RInt(4),
       electricity_cost |-> R(1, 20), heat_cost |-> R(1, 25),
       water_cost |-> R(1, 1000), electricity_consumption |-> RInt(18),
       heat_consumption |-> RInt(9), water_consumption |-> RInt(5),
       co2_capture_rate |-> RInt(3)] }

ElectrolysisInputs ==
    { [capex_co_per_kw |-> RInt(7884), capex_h2_per_kw |-> RInt(3942),
       opex_fixed_percent |-> RInt(5), electricity_cost |-> R(1, 10),
       water_cost |-> R(1, 1000), catalyst_cost |-> R(1, 50),
       energy_input_co |-> RInt(27), energy_input_h2 |-> RInt(54),
       water_consumption |-> RInt(20), catalyst_consumption |-> R(1, 10),
       co_h2_ratio |-> RInt(3), syngas_requirement |-> RInt(2)] }

FtSynthesisInputs ==
    { [capex_per_tpy |-> RInt(1500), opex_fixed_percent |-> RInt(6),
       catalyst_cost |-> R(1, 20), heat_cost |-> R(3, 100),
       cooling_cost |-> R(1, 50), maintenance_percent |-> RInt(2),
       energy_input |-> RInt(18), catalyst_lifetime |-> RInt(2),
       water_consumption |-> RInt(5), water_cost |-> R(1, 1000)] }

DistributionInputs ==
    { [transport_distance |-> RInt(500), transport_mode |-> "truck",
       fuel_density |-> R(4, 5), transport_cost_per_tkm |-> R(3, 20),
       storage_cost |-> RInt(50), blending_cost |-> RInt(20)] }

\* stage arguments whose every price and unit investment is 0: the setters
\* check no value, and an object configured with them evaluates to a
\* levelized cost of exactly 0.0
CostlessDacInputs ==
    { [d EXCEPT !.capex_per_tco2 = RInt(0), !.electricity_cost = RInt(0),
                !.heat_cost = RInt(0), !.water_cost = RInt(0)] : d \in DacInputs }

CostlessElectrolysisInputs ==
    { [d EXCEPT !.capex_co_per_kw = RInt(0), !.capex_h2_per_kw = RInt(0),
                !.electricity_cost = RInt(0), !.water_cost = RInt(0),
                !.catalyst_cost = RInt(0)] : d \in ElectrolysisInputs }

CostlessFtSynthesisInputs ==
    { [d EXCEPT !.capex_per_tpy = RInt(0), !.catalyst_cost = RInt(0),
                !.heat_cost = RInt(0), !.cooling_cost = RInt(0),
                !.water_cost = RInt(0)] : d \in FtSynthesisInputs }

CostlessDistributionInputs ==
    { [d EXCEPT !.transport_cost_per_tkm = RInt(0), !.storage_cost = RInt(0),
                !.blending_cost = RInt(0)] : d \in DistributionInputs }

\* the decimal n/d of the source, in the wide form
Dec(n, d) == Widen(R(n, d))

\* the default arguments of set_economic_parameters (lines 55-56)
DefaultEconomicInputs == {<<Dec(8, 100), 20, Dec(9, 10), Dec(100000, 1)>>}

\* the default arguments of set_dac_costs (lines 108-111)
DefaultDacInputs ==
    { [capex_per_tco2 |-> Dec(4000, 1), opex_fixed_percent |-> Dec(4, 1),
       electricity_cost |-> Dec(5, 100), heat_cost |-> Dec(3, 100),
       water_cost |-> Dec(1, 1000), electricity_consumption |-> Dec(20, 1),
       heat_consumption |-> Dec(5, 1), water_consumption |-> Dec(5, 1),
       co2_capture_rate |-> Dec(31, 10)] }

\* the default arguments of set_electrolysis_costs (lines 158-163)
DefaultElectrolysisInputs ==
    { [capex_co_per_kw |-> Dec(3000, 1), capex_h2_per_kw |-> Dec(1500, 1),
       opex_fixed_percent |-> Dec(5, 1), electricity_cost |-> Dec(5, 100),
       water_cost |-> Dec(1, 1000), catalyst_cost |-> Dec(2, 100),
       energy_input_co |-> Dec(28, 1), energy_input_h2 |-> Dec(55, 1),
       water_consumption |-> Dec(20, 1), catalyst_consumption |-> Dec(1, 10),
       co_h2_ratio |-> Dec(923, 1000), syngas_requirement |-> Dec(213, 100)] }

\* the default arguments of set_ft_synthesis_costs (lines 218-222)
DefaultFtSynthesisInputs ==
    { [capex_per_tpy |-> Dec(15000, 1), opex_fixed_percent |-> Dec(6, 1),
       catalyst_cost |-> Dec(5, 100), heat_cost |-> Dec(3, 100),
       cooling_cost |-> Dec(2, 100), maintenance_percent |-> Dec(2, 1),
       energy_input |-> Dec(25, 1), catalyst_lifetime |-> Dec(2, 1),
       water_consumption |-> Dec(5, 1), water_cost |-> Dec(1, 1000)] }

\* the default arguments of set_distribution_costs (lines 271-273)
DefaultDistributionInputs ==
    { [transport_distance |-> Dec(500, 1), transport_mode |-> "truck",
       fuel_density |-> Dec(8, 10), transport_cost_per_tkm |-> Dec(15, 100),
       storage_cost |-> Dec(50, 1), blending_cost |-> Dec(20, 1)] }

\* prices and capacities out of the ranges of the default lists of the
\* sweeps (lines 517, 586)
DefaultSweepPrices == {Dec(2, 100), Dec(1, 10), Dec(2, 10)}
DefaultSweepCapacities == {Dec(10000, 1), Dec(100000, 1), Dec(1000000, 1)}

SweepPrices == {R(1, 20), R(1, 10)}
SweepCapacities == {RInt(0), RInt(1), RInt(2)}
ReferencePrices == {RInt(0), RInt(1), RInt(2)}

-----------------------------------------------------------------------------
(* State                                                                   *)

\* self.results of __init__ (lines 48-53)
InitialResults ==
    [capex_breakdown |-> EmptyDict, opex_breakdown |-> EmptyDict,
     total_costs |-> EmptyDict, levelized_cost |-> RInt(0)]

Snapshot ==
    [economic_parameters |-> economic_parameters,
     dac_cost_data |-> dac_cost_data,
     electrolysis_cost_data |-> electrolysis_cost_data,
     ft_synthesis_cost_data |-> ft_synthesis_cost_data,
     distribution_cost_data |-> distribution_cost_data,
     results |-> results]

NoSnapshot ==
    [economic_parameters |-> EmptyDict, dac_cost_data |-> EmptyDict,
     electrolysis_cost_data |-> EmptyDict, ft_synthesis_cost_data |-> EmptyDict,
     distribution_cost_data |-> EmptyDict, results |-> InitialResults]

NoFrame == [op |-> "none"]
NoOutcome == [status |-> "none"]
Returned(value) == [status |-> "returned", value |-> value]
Raised(exc) == [status |-> "raised", exc |-> exc]

\* The dict that calculate_tea returns is the object self.results names
\* (line 493), so a caller that keeps it holds an alias of self.results until
\* the name is bound to another dict.  value is the content of the dict the
\* caller holds, alias whether self.results still names that dict.
NoReturned == [held |-> FALSE, alias |-> FALSE, value |-> EmptyDict]
Held(value) == [held |-> TRUE, alias |-> TRUE, value |-> value]

\* a variant that fills the dict self.results names instead of binding the
\* name to a new one (self.results.update({...}))
StoreInPlace(ref, value) ==
    IF ref.alias THEN [ref EXCEPT !.value = value] ELSE ref

\* self.results = {...} (line 466) as the caller's dict sees it: the name is
\* bound to a new dict, and the dict the caller holds is left as it is
Store(ref, value) == [ref EXCEPT !.alias = FALSE]

\* __init__ (lines 14-53)
Init ==
    /\ economic_parameters = EmptyDict
    /\ dac_cost_data = EmptyDict
    /\ electrolysis_cost_data = EmptyDict
    /\ ft_synthesis_cost_data = EmptyDict
    /\ distribution_cost_data = EmptyDict
    /\ results = InitialResults
    /\ returned_results = NoReturned
    /\ pc = "idle"
    /\ frame = NoFrame
    /\ pre = NoSnapshot
    /\ outcome = NoOutcome

\* a variant that swallows the division by zero and reports a cost of 0
TeaClamped ==
    LET tea == CalculateTea(economic_parameters, dac_cost_data, electrolysis_cost_data,
                            ft_synthesis_cost_data, distribution_cost_data)
    IN  IF ~tea.ok /\ tea.exc.type = "ZeroDivisionError"
        THEN Ok([InitialResults EXCEPT !.levelized_cost = RInt(0)])
        ELSE tea

\* a variant that keeps results it has already computed
TeaCached ==
    IF results # InitialResults
    THEN Ok(results)
    ELSE CalculateTea(economic_parameters, dac_cost_data, electrolysis_cost_data,
                      ft_synthesis_cost_data, distribution_cost_data)

\* self.calculate_tea(...) on the object's current dictionaries
Tea == CalculateTea(economic_parameters, dac_cost_data, electrolysis_cost_data,
                    ft_synthesis_cost_data, distribution_cost_data)

-----------------------------------------------------------------------------
(* Setters                                                                 *)

\* the dict literal of lines 71-77
EconomicRecord(discount_rate, project_lifetime, capacity_factor, plant_capacity_tpy, crf) ==
    [discount_rate |-> discount_rate,
     project_lifetime |-> project_lifetime,
     capacity_factor |-> capacity_factor,
     plant_capacity_tpy |-> plant_capacity_tpy,
     crf |-> crf]

\* set_economic_parameters (lines 55-84): the dict is built, _calculate_crf
\* included, before it is assigned; an exception leaves the old dict
set_economic_parameters(discount_rate, project_lifetime, capacity_factor, plant_capacity_tpy) ==
    /\ pc = "idle"
    /\ LET crf == calculate_crf(discount_rate, project_lifetime)
       IN  /\ economic_parameters' =
                IF crf.ok
                THEN EconomicRecord(discount_rate, project_lifetime,
                                    capacity_factor, plant_capacity_tpy, crf.value)
                ELSE economic_parameters
           /\ outcome' = IF crf.ok THEN Returned("None") ELSE Raised(crf.exc)
    /\ frame' = [op |-> "set_economic_parameters",
                 discount_rate |-> discount_rate,
                 project_lifetime |-> project_lifetime]
    /\ pre' = Snapshot
    /\ pc' = "done"
    /\ UNCHANGED <<dac_cost_data, electrolysis_cost_data, ft_synthesis_cost_data,
                   distribution_cost_data, results, returned_results>>

\* a variant that forgets the results of the former configuration
set_dac_costs_resetting_results(data) ==
    /\ pc = "idle"
    /\ dac_cost_data' = data
    /\ results' = InitialResults
    /\ frame' = [op |-> "set_dac_costs"]
    /\ pre' = Snapshot
    /\ outcome' = Returned("None")
    /\ pc' = "done"
    /\ UNCHANGED <<economic_parameters, electrolysis_cost_data,
                   ft_synthesis_cost_data, distribution_cost_data, returned_results>>

\* set_dac_costs (lines 108-156)
set_dac_costs(data) ==
    /\ pc = "idle"
    /\ dac_cost_data' = data
    /\ frame' = [op |-> "set_dac_costs"]
    /\ pre' = Snapshot
    /\ outcome' = Returned("None")
    /\ pc' = "done"
    /\ UNCHANGED <<economic_parameters, electrolysis_cost_data,
                   ft_synthesis_cost_data, distribution_cost_data, results, returned_results>>

\* set_electrolysis_costs (lines 158-216)
set_electrolysis_costs(data) ==
    /\ pc = "idle"
    /\ electrolysis_cost_data' = data
    /\ frame' = [op |-> "set_electrolysis_costs"]
    /\ pre' = Snapshot
    /\ outcome' = Returned("None")
    /\ pc' = "done"
    /\ UNCHANGED <<economic_parameters, dac_cost_data, ft_synthesis_cost_data,
                   distribution_cost_data, results, returned_results>>

\* set_ft_synthesis_costs (lines 218-269)
set_ft_synthesis_costs(data) ==
    /\ pc = "idle"
    /\ ft_synthesis_cost_data' = data
    /\ frame' = [op |-> "set_ft_synthesis_costs"]
    /\ pre' = Snapshot
    /\ outcome' = Returned("None")
    /\ pc' = "done"
    /\ UNCHANGED <<economic_parameters, dac_cost_data, electrolysis_cost_data,
                   distribution_cost_data, results, returned_results>>

\* set_distribution_costs (lines 271-307)
set_distribution_costs(data) ==
    /\ pc = "idle"
    /\ distribution_cost_data' = data
    /\ frame' = [op |-> "set_distribution_costs"]
    /\ pre' = Snapshot
    /\ outcome' = Returned("None")
    /\ pc' = "done"
    /\ UNCHANGED <<economic_parameters, dac_cost_data, electrolysis_cost_data,
                   ft_synthesis_cost_data, results, returned_results>>

-----------------------------------------------------------------------------
(* calculate_tea as a public call                                          *)

\* a variant that stores the results only when it narrates
calculate_tea_storing_when_narrating(silent) ==
    /\ pc = "idle"
    /\ \E tea \in {Tea} :
           /\ results' = IF tea.ok /\ ~silent THEN tea.value ELSE results
           /\ returned_results' = IF tea.ok /\ ~silent
                                  THEN Store(returned_results, tea.value)
                                  ELSE returned_results
           /\ outcome' = IF tea.ok THEN Returned(tea.value) ELSE Raised(tea.exc)
    /\ frame' = [op |-> "calculate_tea", silent |-> silent, evals |-> 1]
    /\ pre' = Snapshot
    /\ pc' = "done"
    /\ UNCHANGED params

\* calculate_tea(silent) (lines 309-493): self.results is assigned only by the
\* last statement; silent selects printing only
calculate_tea(silent) ==
    /\ pc = "idle"
    /\ \E tea \in {Tea} :
           /\ results' = IF tea.ok THEN tea.value ELSE results
           /\ returned_results' = IF tea.ok THEN Store(returned_results, tea.value)
                                  ELSE returned_results
           /\ outcome' = IF tea.ok THEN Returned(tea.value) ELSE Raised(tea.exc)
    /\ frame' = [op |-> "calculate_tea", silent |-> silent, evals |-> 1]
    /\ pre' = Snapshot
    /\ pc' = "done"
    /\ UNCHANGED params

Setters ==
    {"set_economic_parameters", "set_dac_costs", "set_electrolysis_costs",
     "set_ft_synthesis_costs", "set_distribution_costs"}

\* control is back at the caller, who keeps a dict held from an earlier
\* calculate_tea while it only reconfigures the object, and lets go of it
\* once a later evaluation, sweep, breakeven or print call has come back
Return ==
    /\ pc = "done"
    /\ pc' = "idle"
    /\ frame' = NoFrame
    /\ pre' = NoSnapshot
    /\ outcome' = NoOutcome
    /\ returned_results' = IF frame.op \in Setters THEN returned_results ELSE NoReturned
    /\ UNCHANGED <<params, results>>

\* control is back at a caller that keeps the dict calculate_tea returned
\* (results = model.calculate_tea())
ReturnKeepingResults ==
    /\ pc = "done"
    /\ frame.op = "calculate_tea"
    /\ outcome.status = "returned"
    /\ pc' = "idle"
    /\ frame' = NoFrame
    /\ pre' = NoSnapshot
    /\ outcome' = NoOutcome
    /\ returned_results' = Held(outcome.value)
    /\ UNCHANGED <<params, results>>

-----------------------------------------------------------------------------
(* Sensitivity sweeps.  The list of values is read one element at a time   *)
(* by the for loop; the model reveals it the same way: frame.values is the *)
(* part of the list read so far, and the list ends where the loop ends.    *)

\* pandas: a / b on columns gives inf or nan, not an exception, when b is 0
PandasDiv(a, b) == IF IsZero(b) THEN "inf_or_nan" ELSE RDiv(a, b)
PandasPercent(a, b) == IF IsZero(b) THEN "inf_or_nan" ELSE RMul(RDiv(a, b), RInt(percent))

\* a variant that puts the new row in front
AppendRowInFront(rows, row) == <<row>> \o rows

\* results.append(row) (lines 537, 604)
AppendRow(rows, row) == Append(rows, row)

\* a variant that leaves calculate_tea out after the restoration
FinalTeaSkipped == Ok(results)

\* the closing self.calculate_tea(silent=True) of a sweep (lines 551, 618)
FinalTea == Tea

\* a variant that leaves the electrolysis spec as it is
ElectrolysisUnchanged(data, price) == data

\* a variant that writes the price as a credit
ElectrolysisWithPriceAsCredit(data, price) == DictSet(data, "electricity_cost", RNeg(price))

\* self.electrolysis_cost_data["electricity_cost"] = price (line 531)
ElectrolysisWithPrice(data, price) == DictSet(data, "electricity_cost", price)

\* a variant that restores the electrolysis price from the DAC original
RestoredElectrolysisFromDac(data, f) ==
    DictSet(data, "electricity_cost", f.original_dac_elec_cost)

\* self.electrolysis_cost_data["electricity_cost"] = original_elec_cost (line 548)
RestoredElectrolysis(data, f) ==
    DictSet(data, "electricity_cost", f.original_elec_cost)

\* a variant that builds the row before the evaluation of the iteration, from
\* the results the object holds by then
PriceRowBeforeEvaluation(price, res) ==
    [electricity_price |-> price,
     levelized_cost |-> results["levelized_cost"],
     dac_cost |-> DictGet(results["total_costs"], "dac", RInt(0)),
     electrolysis_cost |-> DictGet(results["total_costs"], "electrolysis", RInt(0)),
     ft_synthesis_cost |-> DictGet(results["total_costs"], "ft_synthesis", RInt(0)),
     total_annual_cost |-> DictGet(results["total_costs"], "total", RInt(0))]

\* the row of lines 537-544
PriceRow(price, res) ==
    [electricity_price |-> price,
     levelized_cost |-> res["levelized_cost"],
     dac_cost |-> res["total_costs"]["dac"],
     electrolysis_cost |-> res["total_costs"]["electrolysis"],
     ft_synthesis_cost |-> res["total_costs"]["ft_synthesis"],
     total_annual_cost |-> res["total_costs"]["total"]]

\* the columns added by lines 557-559
PriceFrameRow(row) ==
    [electricity_price |-> row.electricity_price,
     levelized_cost |-> row.levelized_cost,
     dac_cost |-> row.dac_cost,
     electrolysis_cost |-> row.electrolysis_cost,
     ft_synthesis_cost |-> row.ft_synthesis_cost,
     total_annual_cost |-> row.total_annual_cost,
     dac_contribution |-> PandasPercent(row.dac_cost, row.total_annual_cost),
     electrolysis_contribution |->
         PandasPercent(row.electrolysis_cost, row.total_annual_cost),
     ft_contribution |-> PandasPercent(row.ft_synthesis_cost, row.total_annual_cost)]

\* the row of lines 604-612
ScaleRow(capacity, res) ==
    [plant_capacity |-> capacity,
     levelized_cost |-> res["levelized_cost"],
     capex_total |-> res["capex_breakdown"]["total"],
     opex_total |-> res["opex_breakdown"]["total"],
     dac_cost |-> res["total_costs"]["dac"],
     electrolysis_cost |-> res["total_costs"]["electrolysis"],
     ft_synthesis_cost |-> res["total_costs"]["ft_synthesis"]]

\* a variant that divides the CAPEX by the capacity the sweep restores
ScaleFrameRowPerRestoredCapacity(row) ==
    [plant_capacity |-> row.plant_capacity,
     levelized_cost |-> row.levelized_cost,
     capex_total |-> row.capex_total,
     opex_total |-> row.opex_total,
     dac_cost |-> row.dac_cost,
     electrolysis_cost |-> row.electrolysis_cost,
     ft_synthesis_cost |-> row.ft_synthesis_cost,
     capex_per_tpy |-> PandasDiv(row.capex_total, RInt(default_plant_capacity)),
     opex_per_tonne |-> PandasDiv(row.opex_total, row.plant_capacity)]

\* the columns added by lines 624-625
ScaleFrameRow(row) ==
    [plant_capacity |-> row.plant_capacity,
     levelized_cost |-> row.levelized_cost,
     capex_total |-> row.capex_total,
     opex_total |-> row.opex_total,
     dac_cost |-> row.dac_cost,
     electrolysis_cost |-> row.electrolysis_cost,
     ft_synthesis_cost |-> row.ft_synthesis_cost,
     capex_per_tpy |-> PandasDiv(row.capex_total, row.plant_capacity),
     opex_per_tonne |-> PandasDiv(row.opex_total, row.plant_capacity)]

\* analyze_electricity_price_sensitivity, lines 509-525: the originals are
\* read with .get(), so an unset dict yields the default 0.05
analyze_electricity_price_sensitivity ==
    /\ pc = "idle"
    /\ frame' = [op |-> "analyze_electricity_price_sensitivity",
                 values |-> <<>>,
                 original_dac_elec_cost |->
                     DictGet(dac_cost_data, "electricity_cost", default_electricity_cost),
                 original_elec_cost |->
                     DictGet(electrolysis_cost_data, "electricity_cost",
                             default_electricity_cost),
                 rows |-> <<>>,
                 evals |-> 0,
                 restored |-> FALSE]
    /\ pre' = Snapshot
    /\ pc' = "ep_loop"
    /\ UNCHANGED <<params, results, returned_results, outcome>>

\* lines 528-530: the loop takes the next price and writes it to the DAC spec
ep_next(price) ==
    /\ pc = "ep_loop"
    /\ Len(frame.values) < MaxSweepLen
    /\ frame' = [frame EXCEPT !.values = Append(@, price)]
    /\ dac_cost_data' = DictSet(dac_cost_data, "electricity_cost", price)
    /\ pc' = "ep_set_elec"
    /\ UNCHANGED <<economic_parameters, electrolysis_cost_data,
                   ft_synthesis_cost_data, distribution_cost_data, results, returned_results,
                   pre, outcome>>

\* line 531
ep_set_elec ==
    /\ pc = "ep_set_elec"
    /\ electrolysis_cost_data' =
           ElectrolysisWithPrice(electrolysis_cost_data,
                                 frame.values[Len(frame.values)])
    /\ pc' = "ep_eval"
    /\ UNCHANGED <<economic_parameters, dac_cost_data, ft_synthesis_cost_data,
                   distribution_cost_data, results, returned_results, frame, pre, outcome>>

\* lines 534-544: an exception of calculate_tea leaves the method at once
ep_eval ==
    /\ pc = "ep_eval"
    /\ \E tea \in {Tea} :
           IF tea.ok
           THEN /\ results' = tea.value
                /\ returned_results' = Store(returned_results, tea.value)
                /\ frame' = [frame EXCEPT
                       !.rows = AppendRow(@, PriceRow(frame.values[Len(frame.values)],
                                                      tea.value)),
                       !.evals = @ + 1]
                /\ pc' = "ep_loop"
                /\ UNCHANGED outcome
           ELSE /\ outcome' = Raised(tea.exc)
                /\ frame' = [frame EXCEPT !.evals = @ + 1]
                /\ pc' = "done"
                /\ UNCHANGED <<results, returned_results>>
    /\ UNCHANGED <<params, pre>>

\* lines 547-548, when the list has no further price
ep_restore ==
    /\ pc = "ep_loop"
    /\ dac_cost_data' =
           DictSet(dac_cost_data, "electricity_cost", frame.original_dac_elec_cost)
    /\ electrolysis_cost_data' = RestoredElectrolysis(electrolysis_cost_data, frame)
    /\ frame' = [frame EXCEPT !.restored = TRUE]
    /\ pc' = "ep_final"
    /\ UNCHANGED <<economic_parameters, ft_synthesis_cost_data,
                   distribution_cost_data, results, returned_results, pre, outcome>>

\* lines 551-563: pd.DataFrame of an empty list has no columns, and
\* df['dac_cost'] raises KeyError then
ep_final ==
    /\ pc = "ep_final"
    /\ \E tea \in {FinalTea} :
           /\ results' = IF tea.ok THEN tea.value ELSE results
           /\ returned_results' = IF tea.ok THEN Store(returned_results, tea.value)
                                  ELSE returned_results
           /\ outcome' =
                  IF ~tea.ok THEN Raised(tea.exc)
                  ELSE IF frame.rows = <<>> THEN Raised(Exception("KeyError", {"dac_cost"}))
                  ELSE Returned([i \in 1..Len(frame.rows) |-> PriceFrameRow(frame.rows[i])])
    /\ frame' = [frame EXCEPT !.evals = @ + 1]
    /\ pc' = "done"
    /\ UNCHANGED <<params, pre>>

\* original_capacity as written back by line 615
RestoredCapacity(f) == f.original_capacity

\* analyze_scale_sensitivity, lines 578-593
analyze_scale_sensitivity ==
    /\ pc = "idle"
    /\ frame' = [op |-> "analyze_scale_sensitivity",
                 values |-> <<>>,
                 original_capacity |->
                     DictGet(economic_parameters, "plant_capacity_tpy",
                             RInt(default_plant_capacity)),
                 rows |-> <<>>,
                 evals |-> 0,
                 restored |-> FALSE]
    /\ pre' = Snapshot
    /\ pc' = "sc_loop"
    /\ UNCHANGED <<params, results, returned_results, outcome>>

\* lines 596-598
sc_next(capacity) ==
    /\ pc = "sc_loop"
    /\ Len(frame.values) < MaxSweepLen
    /\ frame' = [frame EXCEPT !.values = Append(@, capacity)]
    /\ economic_parameters' =
           DictSet(economic_parameters, "plant_capacity_tpy", capacity)
    /\ pc' = "sc_eval"
    /\ UNCHANGED <<dac_cost_data, electrolysis_cost_data, ft_synthesis_cost_data,
                   distribution_cost_data, results, returned_results, pre, outcome>>

\* lines 601-612
sc_eval ==
    /\ pc = "sc_eval"
    /\ \E tea \in {Tea} :
           IF tea.ok
           THEN /\ results' = tea.value
                /\ returned_results' = Store(returned_results, tea.value)
                /\ frame' = [frame EXCEPT
                       !.rows = AppendRow(@, ScaleRow(frame.values[Len(frame.values)],
                                                      tea.value)),
                       !.evals = @ + 1]
                /\ pc' = "sc_loop"
                /\ UNCHANGED outcome
           ELSE /\ outcome' = Raised(tea.exc)
                /\ frame' = [frame EXCEPT !.evals = @ + 1]
                /\ pc' = "done"
                /\ UNCHANGED <<results, returned_results>>
    /\ UNCHANGED <<params, pre>>

\* line 615, when the list has no further capacity
sc_restore ==
    /\ pc = "sc_loop"
    /\ economic_parameters' =
           DictSet(economic_parameters, "plant_capacity_tpy", RestoredCapacity(frame))
    /\ frame' = [frame EXCEPT !.restored = TRUE]
    /\ pc' = "sc_final"
    /\ UNCHANGED <<dac_cost_data, electrolysis_cost_data, ft_synthesis_cost_data,
                   distribution_cost_data, results, returned_results, pre, outcome>>

\* lines 618-629
sc_final ==
    /\ pc = "sc_final"
    /\ \E tea \in {FinalTea} :
           /\ results' = IF tea.ok THEN tea.value ELSE results
           /\ returned_results' = IF tea.ok THEN Store(returned_results, tea.value)
                                  ELSE returned_results
           /\ outcome' =
                  IF ~tea.ok THEN Raised(tea.exc)
                  ELSE IF frame.rows = <<>> THEN Raised(Exception("KeyError", {"capex_total"}))
                  ELSE Returned([i \in 1..Len(frame.rows) |-> ScaleFrameRow(frame.rows[i])])
    /\ frame' = [frame EXCEPT !.evals = @ + 1]
    /\ pc' = "done"
    /\ UNCHANGED <<params, pre>>

-----------------------------------------------------------------------------
(* Breakeven                                                               *)

\* a variant whose premium percentage is taken relative to the eSAF cost
BreakevenResultsRelativeToCost(L, P) ==
    LET esaf_cost_per_liter == RMul(RMul(L, RInt(energy_density)), breakeven_fuel_density)
        price_premium == RSub(esaf_cost_per_liter, P)
    IN  [esaf_cost_usd_per_liter |-> esaf_cost_per_liter,
         conventional_fuel_price |-> P,
         price_premium |-> price_premium,
         price_premium_percent |->
             RMul(RDiv(price_premium, esaf_cost_per_liter), RInt(percent)),
         required_carbon_tax |->
             RDiv(price_premium,
                  RMul(RDiv(RInt(emission_difference), RInt(kg_per_tonne)),
                       RInt(energy_density))),
         emission_difference_g_co2e_per_mj |-> RInt(emission_difference)]

\* the dict of lines 652-670 for levelized cost L and reference price P /= 0
BreakevenResults(L, P) ==
    LET esaf_cost_per_liter == RMul(RMul(L, RInt(energy_density)), breakeven_fuel_density)
        price_premium == RSub(esaf_cost_per_liter, P)
        price_premium_percent == RMul(RDiv(price_premium, P), RInt(percent))
        required_carbon_tax ==
            RDiv(price_premium,
                 RMul(RDiv(RInt(emission_difference), RInt(kg_per_tonne)),
                      RInt(energy_density)))
    IN  [esaf_cost_usd_per_liter |-> esaf_cost_per_liter,
         conventional_fuel_price |-> P,
         price_premium |-> price_premium,
         price_premium_percent |-> price_premium_percent,
         required_carbon_tax |-> required_carbon_tax,
         emission_difference_g_co2e_per_mj |-> RInt(emission_difference)]

\* the effect of calculate_breakeven_fuel_price(P) (lines 631-678) on an
\* object whose self.results is res and whose calculate_tea() would give tea:
\* a levelized cost of 0.0 is falsy and triggers calculate_tea() (line 644);
\* line 656 divides by the reference price
BreakevenCall(res, tea, P) ==
    LET trigger == IsZero(DictGet(res, "levelized_cost", RInt(0)))
    IN  [evals |-> IF trigger THEN 1 ELSE 0,
         stored |-> trigger /\ tea.ok,
         results |-> IF trigger /\ tea.ok THEN tea.value ELSE res,
         outcome |->
             IF trigger /\ ~tea.ok THEN Raised(tea.exc)
             ELSE IF IsZero(P) THEN Raised(Exception("ZeroDivisionError", {}))
             ELSE Returned(BreakevenResults(
                               (IF trigger THEN tea.value ELSE res)["levelized_cost"], P))]

\* calculate_breakeven_fuel_price called by the user
calculate_breakeven_fuel_price(conventional_fuel_price) ==
    /\ pc = "idle"
    /\ \E call \in {BreakevenCall(results, Tea, conventional_fuel_price)} :
           /\ results' = call.results
           /\ returned_results' = IF call.stored
                                  THEN Store(returned_results, call.results)
                                  ELSE returned_results
           /\ outcome' = call.outcome
           /\ frame' = [op |-> "calculate_breakeven_fuel_price",
                        conventional_fuel_price |-> conventional_fuel_price,
                        evals |-> call.evals]
    /\ pre' = Snapshot
    /\ pc' = "done"
    /\ UNCHANGED params

-----------------------------------------------------------------------------
(* The textual summary                                                     *)

\* the reference price of the benchmark section (line 778)
benchmark_fuel_price == RInt(1)

\* the keys of self.results that the summary section reads (lines 706-717)
SummaryKeys ==
    <<"levelized_cost", "annual_production_tonnes", "capex_breakdown",
      "opex_breakdown", "total_costs">>

\* what a call of print_results does that is not printing
Printed(call, out, sections, breakeven) ==
    [evals |-> call.evals, stored |-> call.stored, results |-> call.results,
     outcome |-> out,
     sections |-> sections, breakeven |-> breakeven]

\* print_results itself runs no evaluation and stores nothing
NoCall(res) == [evals |-> 0, stored |-> FALSE, results |-> res]

\* the benchmark section (lines 773-791): one breakeven call at the price of
\* line 778, whose dict is printed
PrintBenchmarks(call, sections) ==
    Printed(call,
            IF call.outcome.status = "raised" THEN call.outcome ELSE Returned("None"),
            IF call.outcome.status = "raised" THEN sections
            ELSE Append(sections, "benchmarks"),
            IF call.outcome.status = "raised" THEN "None" ELSE call.outcome.value)

\* print_results (lines 680-793) on an object whose self.results is res and
\* whose calculate_tea() would give tea: without a levelized cost it prints
\* one line and returns (lines 693-695); the summary and the detailed
\* sections only read self.results
PrintResultsCall(res, tea, show_detailed, show_summary, show_benchmarks) ==
    LET sections == (IF show_summary THEN <<"summary">> ELSE <<>>)
                    \o (IF show_detailed THEN <<"detailed">> ELSE <<>>)
    IN  IF IsZero(DictGet(res, "levelized_cost", RInt(0)))
        THEN Printed(NoCall(res), Returned("None"), <<>>, "None")
        ELSE IF show_summary /\ FirstMissing(res, SummaryKeys) # ""
        THEN Printed(NoCall(res), Raised(KeyError(res, SummaryKeys).exc), <<>>, "None")
        ELSE IF show_benchmarks
        THEN PrintBenchmarks(BreakevenCall(res, tea, benchmark_fuel_price), sections)
        ELSE Printed(NoCall(res), Returned("None"), sections, "None")

\* a variant that, like the breakeven analyzer, evaluates first when there is
\* no levelized cost yet
print_results_evaluating_when_empty(show_detailed, show_summary, show_benchmarks) ==
    /\ pc = "idle"
    /\ \E first \in {BreakevenCall(results, Tea, benchmark_fuel_price)} :
       \E call \in {PrintResultsCall(first.results, Tea, show_detailed, show_summary,
                                     show_benchmarks)} :
           /\ results' = call.results
           /\ returned_results' = IF call.stored
                                  THEN Store(returned_results, call.results)
                                  ELSE returned_results
           /\ outcome' = call.outcome
           /\ frame' = [op |-> "print_results", show_detailed |-> show_detailed,
                        show_summary |-> show_summary,
                        show_benchmarks |-> show_benchmarks,
                        sections |-> call.sections, breakeven |-> call.breakeven,
                        evals |-> first.evals + call.evals]
    /\ pre' = Snapshot
    /\ pc' = "done"
    /\ UNCHANGED params

\* print_results called by the user
print_results(show_detailed, show_summary, show_benchmarks) ==
    /\ pc = "idle"
    /\ \E call \in {PrintResultsCall(results, Tea, show_detailed, show_summary,
                                     show_benchmarks)} :
           /\ results' = call.results
           /\ returned_results' = IF call.stored
                                  THEN Store(returned_results, call.results)
                                  ELSE returned_results
           /\ outcome' = call.outcome
           /\ frame' = [op |-> "print_results", show_detailed |-> show_detailed,
                        show_summary |-> show_summary,
                        show_benchmarks |-> show_benchmarks,
                        sections |-> call.sections, breakeven |-> call.breakeven,
                        evals |-> call.evals]
    /\ pre' = Snapshot
    /\ pc' = "done"
    /\ UNCHANGED params

-----------------------------------------------------------------------------
(* The complete analysis.  run_complete_analysis calls the methods above   *)
(* one after the other on the same object, so the model states each of     *)
(* them once more as a function of the object state o (a record of the     *)
(* five dictionaries and self.results, as Snapshot builds it) that gives   *)
(* the state the call leaves, how it ends and the evaluations it runs.     *)

\* calculate_tea() on the object state o
TeaOf(o) ==
    CalculateTea(o.economic_parameters, o.dac_cost_data, o.electrolysis_cost_data,
                 o.ft_synthesis_cost_data, o.distribution_cost_data)

\* lines 466-493 on o, for the outcome tea of lines 320-463
TeaCall(o, tea) ==
    [state |-> IF tea.ok THEN [o EXCEPT !.results = tea.value] ELSE o,
     outcome |-> IF tea.ok THEN Returned(tea.value) ELSE Raised(tea.exc),
     evals |-> 1,
     stored |-> tea.ok]

\* the default lists (lines 517, 586), of which the model takes the first
\* MaxSweepLen values
default_electricity_prices ==
    SubSeq(<<Dec(2, 100), Dec(3, 100), Dec(4, 100), Dec(5, 100), Dec(6, 100),
             Dec(8, 100), Dec(10, 100), Dec(12, 100), Dec(15, 100), Dec(20, 100)>>,
           1, MaxSweepLen)

default_plant_capacities ==
    SubSeq(<<Dec(10000, 1), Dec(25000, 1), Dec(50000, 1), Dec(100000, 1),
             Dec(200000, 1), Dec(500000, 1), Dec(1000000, 1)>>,
           1, MaxSweepLen)

\* the originals a sweep reads at its entry (lines 520-521, 589)
Originals(o) ==
    [original_dac_elec_cost |->
         DictGet(o.dac_cost_data, "electricity_cost", default_electricity_cost),
     original_elec_cost |->
         DictGet(o.electrolysis_cost_data, "electricity_cost", default_electricity_cost),
     original_capacity |->
         DictGet(o.economic_parameters, "plant_capacity_tpy", RInt(default_plant_capacity))]

\* lines 529-531 (price sweep) and 598 (scale sweep)
WithSweptValue(o, op, v) ==
    IF op = "analyze_electricity_price_sensitivity"
    THEN [o EXCEPT !.dac_cost_data = DictSet(@, "electricity_cost", v),
                   !.electrolysis_cost_data = ElectrolysisWithPrice(@, v)]
    ELSE [o EXCEPT !.economic_parameters = DictSet(@, "plant_capacity_tpy", v)]

\* lines 547-548 (price sweep) and 615 (scale sweep)
WithOriginals(o, op, f) ==
    IF op = "analyze_electricity_price_sensitivity"
    THEN [o EXCEPT !.dac_cost_data =
                       DictSet(@, "electricity_cost", f.original_dac_elec_cost),
                   !.electrolysis_cost_data = RestoredElectrolysis(@, f)]
    ELSE [o EXCEPT !.economic_parameters =
                       DictSet(@, "plant_capacity_tpy", RestoredCapacity(f))]

\* the row an iteration appends (lines 537-544, 604-612)
SweepRow(op, v, res) ==
    IF op = "analyze_electricity_price_sensitivity" THEN PriceRow(v, res)
    ELSE ScaleRow(v, res)

\* the DataFrame a sweep returns (lines 554-563, 621-629)
SweepFrame(op, rows) ==
    IF rows = <<>>
    THEN Raised(Exception("KeyError",
                          {IF op = "analyze_electricity_price_sensitivity"
                           THEN "dac_cost" ELSE "capex_total"}))
    ELSE IF op = "analyze_electricity_price_sensitivity"
    THEN Returned([i \in 1..Len(rows) |-> PriceFrameRow(rows[i])])
    ELSE Returned([i \in 1..Len(rows) |-> ScaleFrameRow(rows[i])])

RECURSIVE SweepLoop(_, _, _, _)

\* one iteration of the loop on the state o1 that carries the swept value,
\* for the outcome tea of its calculate_tea (lines 534, 601)
SweepIteration(acc, o1, tea, op, values, i) ==
    IF tea.ok
    THEN SweepLoop([state |-> [o1 EXCEPT !.results = tea.value],
                    rows |-> AppendRow(acc.rows, SweepRow(op, values[i], tea.value)),
                    evals |-> acc.evals + 1, stored |-> TRUE,
                    outcome |-> NoOutcome],
                   op, values, i + 1)
    ELSE [state |-> o1, rows |-> acc.rows, evals |-> acc.evals + 1,
          stored |-> acc.stored, outcome |-> Raised(tea.exc)]

\* the for loop of lines 528-544 and 596-612 from its i-th value on
SweepLoop(acc, op, values, i) ==
    IF i > Len(values) THEN acc
    ELSE SweepIteration(acc, WithSweptValue(acc.state, op, values[i]),
                        TeaOf(WithSweptValue(acc.state, op, values[i])), op, values, i)

\* a variant that skips the closing evaluation of the restored object
SweepEndWithoutEvaluation(acc, o2, tea) ==
    IF acc.outcome.status = "raised" THEN acc
    ELSE [state |-> o2, rows |-> acc.rows, evals |-> acc.evals,
          stored |-> acc.stored, outcome |-> NoOutcome]

\* lines 547-551 and 615-618 after the loop acc: the restored state o2 and the
\* outcome tea of the closing calculate_tea
SweepEnd(acc, o2, tea) ==
    IF acc.outcome.status = "raised" THEN acc
    ELSE [state |-> IF tea.ok THEN [o2 EXCEPT !.results = tea.value] ELSE o2,
          rows |-> acc.rows, evals |-> acc.evals + 1,
          stored |-> acc.stored \/ tea.ok,
          outcome |-> IF tea.ok THEN NoOutcome ELSE Raised(tea.exc)]

\* the call record of a sweep that has ended as acc
SweepResult(acc, op) ==
    [state |-> acc.state, evals |-> acc.evals, stored |-> acc.stored,
     outcome |-> IF acc.outcome.status = "raised" THEN acc.outcome
                 ELSE SweepFrame(op, acc.rows)]

\* the loop acc of a sweep, restored and evaluated once more
SweepRestored(acc, op, f) ==
    SweepResult(SweepEnd(acc, WithOriginals(acc.state, op, f),
                         TeaOf(WithOriginals(acc.state, op, f))), op)

\* analyze_electricity_price_sensitivity(values) or
\* analyze_scale_sensitivity(values), as op says, on the object state o
SweepCall(o, op, values) ==
    SweepRestored(SweepLoop([state |-> o, rows |-> <<>>, evals |-> 0,
                             stored |-> FALSE, outcome |-> NoOutcome],
                            op, values, 1),
                  op, Originals(o))

\* a call of calculate_breakeven_fuel_price or print_results on o
ReadingCall(o, call) ==
    [state |-> [o EXCEPT !.results = call.results], outcome |-> call.outcome,
     evals |-> call.evals, stored |-> call.stored]

\* the reference price run_complete_analysis leaves to the default (line 631)
default_fuel_price == RInt(1)

\* run_complete_analysis before its first step
RunStart(o) ==
    [state |-> o, steps |-> <<>>, returns |-> <<>>, evals |-> 0, stored |-> FALSE,
     outcome |-> NoOutcome]

\* one more step of run_complete_analysis: a step that raises ends the run
RunStep(r, name, call) ==
    IF r.outcome.status = "raised" THEN r
    ELSE [state |-> call.state,
          steps |-> Append(r.steps, name),
          returns |-> Append(r.returns, call.outcome),
          evals |-> r.evals + call.evals,
          stored |-> r.stored \/ call.stored,
          outcome |-> IF call.outcome.status = "raised" THEN call.outcome
                      ELSE NoOutcome]

\* results_package (lines 970-975)
ResultsPackage(r) ==
    [tea_results |-> r.state.results,
     electricity_analysis |-> r.returns[2].value,
     scale_analysis |-> r.returns[3].value,
     breakeven_analysis |-> r.returns[4].value]

\* run_complete_analysis (lines 916-979): the plots (lines 955-967) read the
\* object and the two frames and write nothing
run_complete_analysis ==
    /\ pc = "idle"
    /\ \E r1 \in {RunStep(RunStart(Snapshot), "calculate_tea",
                           TeaCall(Snapshot, Tea))} :
       \E r2 \in {RunStep(r1, "analyze_electricity_price_sensitivity",
                           SweepCall(r1.state, "analyze_electricity_price_sensitivity",
                                     default_electricity_prices))} :
       \E r3 \in {RunStep(r2, "analyze_scale_sensitivity",
                           SweepCall(r2.state, "analyze_scale_sensitivity",
                                     default_plant_capacities))} :
       \E r4 \in {RunStep(r3, "calculate_breakeven_fuel_price",
                           ReadingCall(r3.state,
                                       BreakevenCall(r3.state.results, TeaOf(r3.state),
                                                     default_fuel_price)))} :
       \E r5 \in {RunStep(r4, "print_results",
                           ReadingCall(r4.state,
                                       PrintResultsCall(r4.state.results, TeaOf(r4.state),
                                                        TRUE, TRUE, TRUE)))} :
           /\ economic_parameters' = r5.state.economic_parameters
           /\ dac_cost_data' = r5.state.dac_cost_data
           /\ electrolysis_cost_data' = r5.state.electrolysis_cost_data
           /\ ft_synthesis_cost_data' = r5.state.ft_synthesis_cost_data
           /\ distribution_cost_data' = r5.state.distribution_cost_data
           /\ results' = r5.state.results
           /\ returned_results' = IF r5.stored
                                  THEN Store(returned_results, r5.state.results)
                                  ELSE returned_results
           /\ outcome' = IF r5.outcome.status = "raised" THEN r5.outcome
                         ELSE Returned(ResultsPackage(r5))
           /\ frame' = [op |-> "run_complete_analysis", steps |-> r5.steps,
                        evals |-> r5.evals]
    /\ pre' = Snapshot
    /\ pc' = "done"

-----------------------------------------------------------------------------
Next ==
    \/ \E e \in EconomicInputs : set_economic_parameters(e[1], e[2], e[3], e[4])
    \/ \E d \in DacInputs : set_dac_costs(d)
    \/ \E d \in ElectrolysisInputs : set_electrolysis_costs(d)
    \/ \E d \in FtSynthesisInputs : set_ft_synthesis_costs(d)
    \/ \E d \in DistributionInputs : set_distribution_costs(d)
    \/ \E silent \in BOOLEAN : calculate_tea(silent)
    \/ analyze_electricity_price_sensitivity
    \/ \E price \in SweepPrices : ep_next(price)
    \/ ep_set_elec
    \/ ep_eval
    \/ ep_restore
    \/ ep_final
    \/ analyze_scale_sensitivity
    \/ \E capacity \in SweepCapacities : sc_next(capacity)
    \/ sc_eval
    \/ sc_restore
    \/ sc_final
    \/ \E P \in ReferencePrices : calculate_breakeven_fuel_price(P)
    \/ \E flags \in BOOLEAN \X BOOLEAN \X BOOLEAN : print_results(flags[1], flags[2], flags[3])
    \/ run_complete_analysis
    \/ Return

Spec == Init /\ [][Next]_vars

\* every group has been set
AllGroupsSet ==
    ~MissingData(economic_parameters, dac_cost_data, electrolysis_cost_data,
                 ft_synthesis_cost_data, distribution_cost_data)

\* the same object in the use that __main__ makes of it: the setters are
\* called with their default arguments, and the analyses run on the
\* configured object
NextWithDefaults ==
    \/ \E e \in DefaultEconomicInputs : set_economic_parameters(e[1], e[2], e[3], e[4])
    \/ \E d \in DefaultDacInputs : set_dac_costs(d)
    \/ \E d \in DefaultElectrolysisInputs : set_electrolysis_costs(d)
    \/ \E d \in DefaultFtSynthesisInputs : set_ft_synthesis_costs(d)
    \/ \E d \in DefaultDistributionInputs : set_distribution_costs(d)
    \/ AllGroupsSet /\ calculate_tea(TRUE)
    \/ AllGroupsSet /\ analyze_electricity_price_sensitivity
    \/ \E price \in DefaultSweepPrices : ep_next(price)
    \/ ep_set_elec
    \/ ep_eval
    \/ ep_restore
    \/ ep_final
    \/ AllGroupsSet /\ analyze_scale_sensitivity
    \/ \E capacity \in DefaultSweepCapacities : sc_next(capacity)
    \/ sc_eval
    \/ sc_restore
    \/ sc_final
    \/ run_complete_analysis
    \/ Return

SpecWithDefaults == Init /\ [][NextWithDefaults]_vars

\* the same object with stages that may cost nothing
NextWithCostlessStages ==
    \/ \E e \in EconomicInputs : set_economic_parameters(e[1], e[2], e[3], e[4])
    \/ \E d \in DacInputs \cup CostlessDacInputs : set_dac_costs(d)
    \/ \E d \in CostlessElectrolysisInputs : set_electrolysis_costs(d)
    \/ \E d \in CostlessFtSynthesisInputs : set_ft_synthesis_costs(d)
    \/ \E d \in CostlessDistributionInputs : set_distribution_costs(d)
    \/ \E silent \in BOOLEAN : calculate_tea(silent)
    \/ \E P \in ReferencePrices : calculate_breakeven_fuel_price(P)
    \/ Return

SpecWithCostlessStages == Init /\ [][NextWithCostlessStages]_vars

\* the same object with a caller that may keep the dict of an evaluation
NextWithHeldResults ==
    \/ Next
    \/ ReturnKeepingResults

SpecWithHeldResults == Init /\ [][NextWithHeldResults]_vars

-----------------------------------------------------------------------------
(* Vocabulary of the properties                                            *)

PriceSweep == "analyze_electricity_price_sensitivity"
ScaleSweep == "analyze_scale_sensitivity"

Done == pc = "done"
IsSweep == frame.op \in {PriceSweep, ScaleSweep}
SweepDone == Done /\ IsSweep
SweepReturned == SweepDone /\ outcome.status = "returned"
\* the sweep ended by an exception of an evaluation inside its loop
SweepFailedInLoop == SweepDone /\ outcome.status = "raised" /\ ~frame.restored

\* the five dictionaries are what they were when the call was entered
ParamsAsBefore ==
    /\ economic_parameters = pre.economic_parameters
    /\ dac_cost_data = pre.dac_cost_data
    /\ electrolysis_cost_data = pre.electrolysis_cost_data
    /\ ft_synthesis_cost_data = pre.ft_synthesis_cost_data
    /\ distribution_cost_data = pre.distribution_cost_data

\* every group held all of its keys when the call was entered
Complete(d, keys) == \A i \in 1..Len(keys) : keys[i] \in DOMAIN d
AllSetBefore ==
    /\ Complete(pre.economic_parameters, EconKeys)
    /\ Complete(pre.dac_cost_data, DacKeys)
    /\ Complete(pre.electrolysis_cost_data, ElecKeys)
    /\ Complete(pre.ft_synthesis_cost_data, FtKeys)
    /\ Complete(pre.distribution_cost_data, DistKeys)

\* the groups that were empty when the call was entered
MissingBefore ==
    {g \in {"economic_parameters", "dac_cost_data", "electrolysis_cost_data",
            "ft_synthesis_cost_data", "distribution_cost_data"} : ~Truthy(pre[g])}

\* the evaluation of the dictionaries of the call's entry
TeaBefore ==
    CalculateTea(pre.economic_parameters, pre.dac_cost_data,
                 pre.electrolysis_cost_data, pre.ft_synthesis_cost_data,
                 pre.distribution_cost_data)

\* the evaluation of the entry dictionaries with the swept field set to v
TeaBeforeWith(v) ==
    IF frame.op = PriceSweep
    THEN CalculateTea(pre.economic_parameters,
                      DictSet(pre.dac_cost_data, "electricity_cost", v),
                      DictSet(pre.electrolysis_cost_data, "electricity_cost", v),
                      pre.ft_synthesis_cost_data, pre.distribution_cost_data)
    ELSE CalculateTea(DictSet(pre.economic_parameters, "plant_capacity_tpy", v),
                      pre.dac_cost_data, pre.electrolysis_cost_data,
                      pre.ft_synthesis_cost_data, pre.distribution_cost_data)

LastValue == frame.values[Len(frame.values)]

\* the last swept value is the value the swept fields had before the sweep
LastValueIsOriginal ==
    IF frame.op = PriceSweep
    THEN /\ LastValue = pre.dac_cost_data["electricity_cost"]
         /\ LastValue = pre.electrolysis_cost_data["electricity_cost"]
    ELSE LastValue = pre.economic_parameters["plant_capacity_tpy"]

-----------------------------------------------------------------------------
(* C1: when a sweep returns, the five parameter dictionaries equal their   *)
(* values at the entry of the sweep: the DAC and the electrolysis          *)
(* electricity_cost each have their own original value, plant_capacity_tpy *)
(* has its original value, and no other field has changed.                 *)
C1_SweepRestoresParameters == SweepReturned => ParamsAsBefore

\* a returned price sweep of two prices whose two originals differed and
\* whose last price is not the electrolysis original
C1_Witness ==
    /\ SweepReturned
    /\ frame.op = PriceSweep
    /\ Len(frame.values) = 2
    /\ AllSetBefore
    /\ pre.dac_cost_data["electricity_cost"] # pre.electrolysis_cost_data["electricity_cost"]
    /\ LastValue # pre.electrolysis_cost_data["electricity_cost"]

(* C2: when a sweep returns, self.results is the evaluation of the         *)
(* unperturbed parameters: it equals the results of the entry when those   *)
(* were fresh, a further calculate_tea reproduces it, and it differs from  *)
(* the evaluation under the last swept value unless that is the original.  *)
C2_SweepLeavesBaseResults ==
    SweepReturned =>
        /\ TeaBefore.ok /\ results = TeaBefore.value
        /\ (pre.results = TeaBefore.value => results = pre.results)
        /\ Tea.ok /\ Tea.value = results
        /\ (~LastValueIsOriginal => results # TeaBeforeWith(LastValue).value)

\* a returned scale sweep entered with fresh results whose last capacity is
\* not the original one
C2_Witness ==
    /\ SweepReturned
    /\ frame.op = ScaleSweep
    /\ pre.results = TeaBefore.value
    /\ ~LastValueIsOriginal
    /\ results = pre.results

(* C3 (as claimed): when an evaluation inside the loop of a sweep raises,  *)
(* the exception reaches the caller with every dictionary restored; stated *)
(* for a sweep entered with a configuration that evaluates.                *)
C3_FailedSweepRestoresParameters ==
    (SweepFailedInLoop /\ AllSetBefore /\ TeaBefore.ok) => ParamsAsBefore

(* C4 (as claimed): a sweep over the empty list returns an empty sequence, *)
(* raises nothing and changes neither the dictionaries nor self.results;   *)
(* stated for a sweep entered with a configuration that evaluates.         *)
C4_EmptySweepIsNoOp ==
    (SweepDone /\ frame.values = <<>> /\ AllSetBefore /\ TeaBefore.ok) =>
        /\ outcome.status = "returned"
        /\ outcome.value = <<>>
        /\ ParamsAsBefore
        /\ results = pre.results

(* C5: a returned sweep over v1..vn has n rows, row i carrying vi, and ran *)
(* n+1 evaluations; the restoration comes after the n-th and before the    *)
(* last of them.                                                           *)
SweptValue(row) ==
    IF frame.op = PriceSweep THEN row.electricity_price ELSE row.plant_capacity

C5_RowsFollowInput ==
    /\ SweepReturned =>
          /\ Len(outcome.value) = Len(frame.values)
          /\ \A i \in 1..Len(frame.values) : SweptValue(outcome.value[i]) = frame.values[i]
          /\ frame.evals = Len(frame.values) + 1
    /\ pc \in {"ep_final", "sc_final"} =>
          /\ frame.restored
          /\ frame.evals = Len(frame.values)
    /\ pc \in {"ep_loop", "ep_set_elec", "ep_eval", "sc_loop", "sc_eval"} =>
          ~frame.restored

\* a returned sweep over two values in descending order
C5_Witness ==
    /\ SweepReturned
    /\ Len(frame.values) = 2
    /\ ~RLeq(frame.values[1], frame.values[2])

(* C6: whenever the loop of the price sweep is about to evaluate, the DAC  *)
(* and the electrolysis electricity_cost both equal the current price.     *)
C6_BothPricesSetAtEvaluation ==
    pc = "ep_eval" =>
        /\ "electricity_cost" \in DOMAIN dac_cost_data
        /\ dac_cost_data["electricity_cost"] = LastValue
        /\ "electricity_cost" \in DOMAIN electrolysis_cost_data
        /\ electrolysis_cost_data["electricity_cost"] = LastValue

\* the second iteration is about to evaluate, with a price that neither
\* spec held at the entry of the sweep, all groups set
C6_Witness ==
    /\ pc = "ep_eval"
    /\ Len(frame.values) = 2
    /\ AllSetBefore
    /\ pre.dac_cost_data["electricity_cost"] # LastValue
    /\ pre.electrolysis_cost_data["electricity_cost"] # LastValue
    /\ Tea.ok

(* C7 (as claimed): calculate_tea with an empty group raises an error that *)
(* lists the missing groups, and computes nothing.                         *)
C7_MissingGroupsAreListed ==
    (Done /\ frame.op = "calculate_tea" /\ MissingBefore # {}) =>
        /\ outcome.status = "raised"
        /\ outcome.exc.names = MissingBefore
        /\ results = pre.results

(* C8: calculate_tea with all groups set and plant capacity 0 or capacity  *)
(* factor 0 raises ZeroDivisionError to the caller; self.results is not    *)
(* replaced, so no Results with a clamped or undefined cost exists.        *)
ZeroOutput ==
    \/ IsZero(pre.economic_parameters["plant_capacity_tpy"])
    \/ IsZero(pre.economic_parameters["capacity_factor"])

C8_ZeroOutputRaises ==
    (Done /\ frame.op = "calculate_tea" /\ AllSetBefore /\ ZeroOutput) =>
        /\ outcome.status = "raised"
        /\ outcome.exc.type = "ZeroDivisionError"
        /\ results = pre.results
        /\ ParamsAsBefore

\* calculate_tea has ended on a plant capacity of 0 with a non-zero
\* capacity factor, after an earlier evaluation had produced results
C8_Witness ==
    /\ Done
    /\ frame.op = "calculate_tea"
    /\ AllSetBefore
    /\ IsZero(pre.economic_parameters["plant_capacity_tpy"])
    /\ ~IsZero(pre.economic_parameters["capacity_factor"])
    /\ pre.results # InitialResults

(* C9 (as claimed): set_economic_parameters with a project lifetime below  *)
(* 1 raises and stores nothing; no stored group has a lifetime below 1.    *)
C9_LifetimeBelowOneRejected ==
    /\ (Done /\ frame.op = "set_economic_parameters" /\ frame.project_lifetime < 1) =>
          /\ outcome.status = "raised"
          /\ economic_parameters = pre.economic_parameters
    /\ "project_lifetime" \in DOMAIN economic_parameters =>
          economic_parameters["project_lifetime"] >= 1

(* C10: in every state whose economic group holds a crf, that crf is the   *)
(* capital recovery factor of the stored discount_rate r and lifetime n:   *)
(* crf * ((1+r)^n - 1) = r * (1+r)^n when r /= 0, and crf = 1/n when r = 0.*)
IsCrfOf(crf, r, n) ==
    IF IsZero(r)
    THEN n # 0 /\ crf = R(1, n)
    ELSE /\ ~IsZero(RSub(RPow(RAdd(RInt(1), r), n), RInt(1)))
         /\ RMul(crf, RSub(RPow(RAdd(RInt(1), r), n), RInt(1)))
                = RMul(r, RPow(RAdd(RInt(1), r), n))

C10_CrfMatchesStoredRateAndLifetime ==
    "crf" \in DOMAIN economic_parameters =>
        /\ {"discount_rate", "project_lifetime"} \subseteq DOMAIN economic_parameters
        /\ IsCrfOf(economic_parameters["crf"], economic_parameters["discount_rate"],
                   economic_parameters["project_lifetime"])

\* the setter has replaced a group of another rate and lifetime by one with
\* rate 0; or a sweep has returned on a group with a non-zero rate
C10_Witness ==
    /\ Done
    /\ frame.op = "set_economic_parameters"
    /\ outcome.status = "returned"
    /\ "crf" \in DOMAIN pre.economic_parameters
    /\ pre.economic_parameters["discount_rate"] # economic_parameters["discount_rate"]
    /\ pre.economic_parameters["project_lifetime"] # economic_parameters["project_lifetime"]
    /\ pre.economic_parameters["crf"] # economic_parameters["crf"]
    /\ IsZero(economic_parameters["discount_rate"])

-----------------------------------------------------------------------------
\* the keys of the economic group (lines 71-77) and of a sequence of keys
EconomicFields ==
    {"discount_rate", "project_lifetime", "capacity_factor", "plant_capacity_tpy", "crf"}
Fields(keys) == {keys[i] : i \in 1..Len(keys)}
UnsetOrComplete(d, fields) == DOMAIN d = {} \/ fields \subseteq DOMAIN d

(* C11 (as claimed): between calls, every group is either empty or holds   *)
(* all of its fields, also after sweeps on unset groups and failed sweeps. *)
C11_GroupsUnsetOrComplete ==
    pc \in {"idle", "done"} =>
        /\ UnsetOrComplete(economic_parameters, EconomicFields)
        /\ UnsetOrComplete(dac_cost_data, Fields(DacKeys))
        /\ UnsetOrComplete(electrolysis_cost_data, Fields(ElecKeys))
        /\ UnsetOrComplete(ft_synthesis_cost_data, Fields(FtKeys))
        /\ UnsetOrComplete(distribution_cost_data, Fields(DistKeys))

StageNames == {"dac", "electrolysis", "ft_synthesis", "distribution"}
\* self.results has been produced by a successful calculate_tea
Evaluated == results # InitialResults
SumOfStages(table) ==
    RAdd(RAdd(RAdd(table["dac"], table["electrolysis"]), table["ft_synthesis"]),
         table["distribution"])

(* C12: in every Results of a successful calculate_tea, for the four       *)
(* stages and for total: total_costs[k] = capex_breakdown[k] +             *)
(* opex_breakdown[k].                                                      *)
C12_TotalIsCapexPlusOpex ==
    Evaluated =>
        \A k \in StageNames \cup {"total"} :
            results["total_costs"][k] =
                RAdd(results["capex_breakdown"][k], results["opex_breakdown"][k])

\* results whose DAC and electrolysis stages both have a non-zero
\* annualized CAPEX and a non-zero OPEX
C12_Witness ==
    /\ Evaluated
    /\ \A k \in {"dac", "electrolysis"} :
          /\ ~IsZero(results["capex_breakdown"][k])
          /\ ~IsZero(results["opex_breakdown"][k])

(* C13: in every Results of a successful calculate_tea, the entry total of *)
(* capex_breakdown, of opex_breakdown and of total_costs is the sum of the *)
(* table's four stage entries.                                             *)
C13_TotalIsSumOfStages ==
    Evaluated =>
        \A t \in {"capex_breakdown", "opex_breakdown", "total_costs"} :
            results[t]["total"] = SumOfStages(results[t])

\* results with a non-zero distribution cost and four different stage totals
C13_Witness ==
    /\ Evaluated
    /\ ~IsZero(results["total_costs"]["distribution"])
    /\ Cardinality({results["total_costs"][k] : k \in StageNames}) = 4

(* C14: a successful calculate_tea with plant capacity C and capacity      *)
(* factor f returns annual_production_tonnes = C*f, annual_production_mj = *)
(* tonnes * 1000 * 43 and levelized_cost = total_costs.total / that energy.*)
C14_ProductionAndLevelizedCost ==
    (Done /\ frame.op = "calculate_tea" /\ outcome.status = "returned") =>
        /\ outcome.value["annual_production_tonnes"] =
               RMul(economic_parameters["plant_capacity_tpy"],
                    economic_parameters["capacity_factor"])
        /\ outcome.value["annual_production_mj"] =
               RMul(RMul(outcome.value["annual_production_tonnes"], RInt(1000)), RInt(43))
        /\ ~IsZero(outcome.value["annual_production_mj"])
        /\ outcome.value["levelized_cost"] =
               RDiv(outcome.value["total_costs"]["total"],
                    outcome.value["annual_production_mj"])

\* calculate_tea has returned for a capacity factor below 1
C14_Witness ==
    /\ Done
    /\ frame.op = "calculate_tea"
    /\ outcome.status = "returned"
    /\ economic_parameters["capacity_factor"] # RInt(1)
    /\ ~IsZero(outcome.value["levelized_cost"])

(* C15: the Results of calculate_tea are those of the current parameters,  *)
(* whatever self.results held before and whatever ran before: a call on    *)
(* parameters whose results are already current leaves them as they are.   *)
C15_TeaDependsOnParametersOnly ==
    (Done /\ frame.op = "calculate_tea" /\ outcome.status = "returned") =>
        /\ TeaBefore.ok
        /\ outcome.value = TeaBefore.value
        /\ results = TeaBefore.value
        /\ (pre.results = TeaBefore.value => results = pre.results)

\* calculate_tea has returned on an object that held the results of other
\* parameters
C15_Witness ==
    /\ Done
    /\ frame.op = "calculate_tea"
    /\ outcome.status = "returned"
    /\ pre.results # InitialResults
    /\ pre.results # results

(* C16: the outcome of calculate_tea(silent) and the state it leaves are   *)
(* the same for silent = True and silent = False: both are determined by   *)
(* the state at the entry of the call.                                     *)
C16_SilentChangesNothing ==
    (Done /\ frame.op = "calculate_tea") =>
        /\ frame.silent \in BOOLEAN
        /\ outcome = IF TeaBefore.ok THEN Returned(TeaBefore.value)
                                     ELSE Raised(TeaBefore.exc)
        /\ results = IF TeaBefore.ok THEN TeaBefore.value ELSE pre.results
        /\ ParamsAsBefore

\* a silent calculate_tea has returned results that differ from the ones
\* the object held before
C16_Witness ==
    /\ Done
    /\ frame.op = "calculate_tea"
    /\ frame.silent
    /\ outcome.status = "returned"
    /\ pre.results # results

\* the call was entered with the five groups at the setters' defaults
DefaultsAtEntry ==
    /\ EconomicFields \subseteq DOMAIN pre.economic_parameters
    /\ <<pre.economic_parameters["discount_rate"],
          pre.economic_parameters["project_lifetime"],
          pre.economic_parameters["capacity_factor"],
          pre.economic_parameters["plant_capacity_tpy"]>> \in DefaultEconomicInputs
    /\ pre.dac_cost_data \in DefaultDacInputs
    /\ pre.electrolysis_cost_data \in DefaultElectrolysisInputs
    /\ pre.ft_synthesis_cost_data \in DefaultFtSynthesisInputs
    /\ pre.distribution_cost_data \in DefaultDistributionInputs

(* C17: a price sweep of the default parameters returns rows whose        *)
(* levelized cost does not decrease with the price: for any two rows with  *)
(* prices p1 <= p2, levelized_cost(p1) <= levelized_cost(p2).              *)
C17_CostRisesWithPrice ==
    (Done /\ frame.op = PriceSweep /\ outcome.status = "returned"
          /\ DefaultsAtEntry) =>
        \A i, j \in 1..Len(outcome.value) :
            RLeq(outcome.value[i].electricity_price,
                 outcome.value[j].electricity_price) =>
                RLeq(outcome.value[i].levelized_cost, outcome.value[j].levelized_cost)

\* a sweep of the default parameters has returned two rows, the second at
\* the lower price and the lower cost
C17_Witness ==
    /\ Done
    /\ frame.op = PriceSweep
    /\ outcome.status = "returned"
    /\ DefaultsAtEntry
    /\ Len(outcome.value) = 2
    /\ ~RLeq(outcome.value[1].electricity_price, outcome.value[2].electricity_price)
    /\ ~RLeq(outcome.value[1].levelized_cost, outcome.value[2].levelized_cost)

(* C18: a scale sweep of the default parameters returns rows whose CAPEX   *)
(* per unit of capacity, capex_total / plant_capacity, does not increase   *)
(* with the capacity.                                                      *)
C18_CapexPerCapacityDoesNotRise ==
    (Done /\ frame.op = ScaleSweep /\ outcome.status = "returned"
          /\ DefaultsAtEntry) =>
        \A i, j \in 1..Len(outcome.value) :
            RLeq(outcome.value[i].plant_capacity, outcome.value[j].plant_capacity) =>
                /\ outcome.value[i].capex_per_tpy =
                       RDiv(outcome.value[i].capex_total, outcome.value[i].plant_capacity)
                /\ RLeq(outcome.value[j].capex_per_tpy, outcome.value[i].capex_per_tpy)

\* a sweep of the default parameters has returned two rows, the second at
\* the larger capacity and the larger CAPEX
C18_Witness ==
    /\ Done
    /\ frame.op = ScaleSweep
    /\ outcome.status = "returned"
    /\ DefaultsAtEntry
    /\ Len(outcome.value) = 2
    /\ ~RLeq(outcome.value[2].plant_capacity, outcome.value[1].plant_capacity)
    /\ ~RLeq(outcome.value[2].capex_total, outcome.value[1].capex_total)

(* C19: calculate_tea on the default parameters (discount rate 0.08,       *)
(* lifetime 20, capacity factor 0.9, capacity 100000 t/year, the setters'  *)
(* default stage specs) returns a levelized cost between 0.03 and 0.08     *)
(* USD/MJ.                                                                 *)
C19_DefaultCostInBand ==
    (Done /\ frame.op = "calculate_tea" /\ outcome.status = "returned"
          /\ DefaultsAtEntry) =>
        /\ RLeq(Dec(3, 100), outcome.value["levelized_cost"])
        /\ RLeq(outcome.value["levelized_cost"], Dec(8, 100))

(* C20: for the current levelized cost L and a non-zero reference price P, *)
(* the breakeven analysis returns cost_per_volume = L * 43 * 0.8,          *)
(* premium = cost_per_volume - P, premium_percent = premium / P * 100 and  *)
(* required_carbon_price = premium / (89 * 43 / 1000).                     *)
C20_BreakevenFormulas ==
    (Done /\ frame.op = "calculate_breakeven_fuel_price"
          /\ outcome.status = "returned") =>
        LET L == results["levelized_cost"]
            P == frame.conventional_fuel_price
            cost_per_volume == RMul(RMul(L, RInt(43)), R(4, 5))
            premium == RSub(cost_per_volume, P)
        IN  /\ ~IsZero(P)
            /\ outcome.value["esaf_cost_usd_per_liter"] = cost_per_volume
            /\ outcome.value["conventional_fuel_price"] = P
            /\ outcome.value["price_premium"] = premium
            /\ outcome.value["price_premium_percent"] =
                   RMul(RDiv(premium, P), RInt(100))
            /\ outcome.value["required_carbon_tax"] =
                   RDiv(premium, R(89 * 43, 1000))

\* the analysis has returned a premium that is not zero for a reference
\* price other than 1, on results it did not have to compute itself
C20_Witness ==
    /\ Done
    /\ frame.op = "calculate_breakeven_fuel_price"
    /\ outcome.status = "returned"
    /\ frame.evals = 0
    /\ frame.conventional_fuel_price # RInt(1)
    /\ ~IsZero(outcome.value["price_premium"])

(* C21 (as claimed): a breakeven call entered while no evaluation has yet  *)
(* produced a levelized cost, with all groups set, runs exactly one        *)
(* evaluation and, when it returns, returns the dict of that evaluation's  *)
(* levelized cost; a breakeven call entered with the results of an earlier *)
(* evaluation runs no evaluation and leaves self.results as it was.        *)
IsBreakeven == frame.op = "calculate_breakeven_fuel_price"

C21_BreakevenEvaluatesOnlyWithoutCost ==
    (Done /\ IsBreakeven) =>
        /\ (pre.results = InitialResults /\ AllSetBefore) =>
               /\ frame.evals = 1
               /\ outcome.status = "returned" =>
                      /\ TeaBefore.ok
                      /\ outcome.value =
                             BreakevenResults(TeaBefore.value["levelized_cost"],
                                              frame.conventional_fuel_price)
        /\ pre.results # InitialResults =>
               /\ frame.evals = 0
               /\ results = pre.results

(* C22: a call of print_results, whatever its three flags and whatever the *)
(* state of the object, runs no evaluation and leaves the five parameter   *)
(* dictionaries and self.results as they were, also when its benchmark     *)
(* section calls the breakeven analyzer.                                   *)
IsPrint == frame.op = "print_results"

C22_PrintChangesNothing ==
    (Done /\ IsPrint) =>
        /\ frame.evals = 0
        /\ ParamsAsBefore
        /\ results = pre.results

\* a call that has printed the benchmark section from the breakeven dict
C22_Witness ==
    /\ Done /\ IsPrint
    /\ frame.show_benchmarks
    /\ Len(frame.sections) = 3
    /\ frame.sections[3] = "benchmarks"
    /\ frame.breakeven = BreakevenResults(results["levelized_cost"], benchmark_fuel_price)

(* C23: when calculate_tea returns, self.results is the dict it returned   *)
(* and every key of it carries the value of that one evaluation; and the   *)
(* dict a caller holds from an earlier calculate_tea keeps its content in  *)
(* every step of every later call (setters, evaluations, sweeps, breakeven *)
(* calls, print_results).                                                  *)
TeaReturned == Done /\ frame.op = "calculate_tea" /\ outcome.status = "returned"

C23_ResultsReplacedWholesale ==
    /\ [](TeaReturned =>
             /\ results = outcome.value
             /\ DOMAIN results = DOMAIN TeaBefore.value
             /\ \A key \in DOMAIN results : results[key] = TeaBefore.value[key])
    /\ [][(returned_results.held /\ ~Done) =>
              /\ returned_results'.held
              /\ returned_results'.value = returned_results.value]_vars

\* a later calculate_tea has returned other results while the caller holds
\* the dict of an earlier one
C23_Witness ==
    /\ TeaReturned
    /\ returned_results.held
    /\ ~returned_results.alias
    /\ returned_results.value # results
    /\ returned_results.value = pre.results

(* C24: in the Results that calculate_tea returns, the distribution entry  *)
(* of capex_breakdown is 0, and the distribution entry of total_costs (and *)
(* of opex_breakdown) is the actual production C*f times (transport        *)
(* distance times cost per tonne-kilometre, plus storage cost, plus        *)
(* blending cost), a quantity in which neither the capital recovery factor *)
(* nor the design quantity C/f occurs.                                     *)
CapacityBefore == pre.economic_parameters["plant_capacity_tpy"]
CapacityFactorBefore == pre.economic_parameters["capacity_factor"]
CrfBefore == pre.economic_parameters["crf"]

DistributionUnitCost(d) ==
    RAdd(RAdd(RMul(d["transport_distance"], d["transport_cost_per_tkm"]),
              d["storage_cost"]), d["blending_cost"])

C24_DistributionIsOperatingCostOnly ==
    TeaReturned =>
        /\ IsZero(results["capex_breakdown"]["distribution"])
        /\ REq(results["total_costs"]["distribution"],
               RMul(RMul(CapacityBefore, CapacityFactorBefore),
                    DistributionUnitCost(pre.distribution_cost_data)))
        /\ results["opex_breakdown"]["distribution"] =
               results["total_costs"]["distribution"]

\* an evaluation with a distribution cost other than 0 and a capital
\* recovery factor other than 1
C24_Witness ==
    /\ TeaReturned
    /\ ~IsZero(results["total_costs"]["distribution"])
    /\ ~IsZero(results["capex_breakdown"]["total"])
    /\ CrfBefore # RInt(1)

(* C25: in the Results that calculate_tea returns, the annualized CAPEX of *)
(* the capture stage is crf times capex_per_tco2 times the design CO2      *)
(* demand C * co2_capture_rate / f (tonnes), the fixed OPEX is the         *)
(* percentage of that same CAPEX, and the electricity, heat and water      *)
(* costs are the unit costs times the CO2 actually captured,               *)
(* C * f * co2_capture_rate (tonnes, 1000 kg each).                        *)
DesignCo2Tonnes(d) ==
    RDiv(RMul(CapacityBefore, d["co2_capture_rate"]), CapacityFactorBefore)

ActualCo2Kg(d) ==
    RMul(RMul(RMul(CapacityBefore, CapacityFactorBefore), d["co2_capture_rate"]),
         RInt(kg_per_tonne))

\* USD per kg of CO2 captured: electricity, heat and water
DacVariableUnitCost(d) ==
    RAdd(RAdd(RMul(RDiv(d["electricity_consumption"], mj_per_kwh), d["electricity_cost"]),
              RMul(RDiv(d["heat_consumption"], mj_per_kwh), d["heat_cost"])),
         RMul(d["water_consumption"], d["water_cost"]))

DacCapexOnDesign(d) == RMul(DesignCo2Tonnes(d), d["capex_per_tco2"])

C25_CaptureSizedOnDesignRunOnActual ==
    TeaReturned =>
        /\ REq(results["capex_breakdown"]["dac"],
               RMul(DacCapexOnDesign(pre.dac_cost_data), CrfBefore))
        /\ REq(results["opex_breakdown"]["dac"],
               RAdd(RDiv(RMul(DacCapexOnDesign(pre.dac_cost_data),
                              pre.dac_cost_data["opex_fixed_percent"]), RInt(percent)),
                    RMul(ActualCo2Kg(pre.dac_cost_data),
                         DacVariableUnitCost(pre.dac_cost_data))))

\* an evaluation at a capacity factor other than 1, where the design and
\* the actual quantity differ, with a capture stage that costs something
C25_Witness ==
    /\ TeaReturned
    /\ CapacityFactorBefore # RInt(1)
    /\ ~REq(RMul(DesignCo2Tonnes(pre.dac_cost_data), RInt(kg_per_tonne)),
            ActualCo2Kg(pre.dac_cost_data))
    /\ ~IsZero(results["capex_breakdown"]["dac"])
    /\ ~IsZero(results["opex_breakdown"]["dac"])

(* C26: in an evaluation that returns, the syngas requirement of the       *)
(* electrolysis stage is C * f * 1000 * syngas_requirement; its CO part    *)
(* and its H2 part add up to it and stand in the ratio co_h2_ratio; each   *)
(* part sizes a CAPEX by its own power (kg * energy input / 3.6 / 8760 /   *)
(* f) and its own price per kW; and the electrolysis entry of              *)
(* capex_breakdown is the sum of the two CAPEX amounts times crf.          *)
ElectrolysisBefore ==
    ElectrolysisStage(CapacityBefore, CapacityFactorBefore, CrfBefore,
                      pre.electrolysis_cost_data)

\* kW for kg per year at the energy input e (kWh-equivalents of 3.6 MJ)
PowerNeeded(kg, e) ==
    RDiv(RDiv(RDiv(RMul(kg, e), mj_per_kwh), RInt(hours_per_year)), CapacityFactorBefore)

SplitMatchesClaim(stage, d) ==
    /\ REq(stage.syngas_needed,
           RMul(RMul(RMul(CapacityBefore, CapacityFactorBefore), RInt(kg_per_tonne)),
                d["syngas_requirement"]))
    /\ REq(RAdd(stage.co_needed, stage.h2_needed), stage.syngas_needed)
    /\ ~IsZero(stage.h2_needed)
    /\ REq(RDiv(stage.co_needed, stage.h2_needed), d["co_h2_ratio"])
    /\ REq(stage.capex_annual,
           RMul(RAdd(RMul(PowerNeeded(stage.co_needed, d["energy_input_co"]),
                          d["capex_co_per_kw"]),
                     RMul(PowerNeeded(stage.h2_needed, d["energy_input_h2"]),
                          d["capex_h2_per_kw"])),
                CrfBefore))

C26_SyngasSplitAndCapex ==
    TeaReturned =>
        /\ SplitMatchesClaim(ElectrolysisBefore, pre.electrolysis_cost_data)
        /\ results["capex_breakdown"]["electrolysis"] = ElectrolysisBefore.capex_annual

\* an evaluation whose two parts differ and whose crf is neither 0 nor 1
C26_Witness ==
    /\ TeaReturned
    /\ pre.electrolysis_cost_data["co_h2_ratio"] # RInt(1)
    /\ ~IsZero(results["capex_breakdown"]["electrolysis"])
    /\ CrfBefore \notin {RInt(0), RInt(1)}

(* C27: in a returned sweep, row i carries the levelized cost and the      *)
(* stage totals of an evaluation of the dictionaries of the sweep's entry  *)
(* with only the swept field set to the i-th value, whatever the other     *)
(* values of the list, their order and their number.                       *)
RowIsEvaluationOf(row, res) ==
    /\ row.levelized_cost = res["levelized_cost"]
    /\ row.dac_cost = res["total_costs"]["dac"]
    /\ row.electrolysis_cost = res["total_costs"]["electrolysis"]
    /\ row.ft_synthesis_cost = res["total_costs"]["ft_synthesis"]
    /\ IF frame.op = PriceSweep
       THEN row.total_annual_cost = res["total_costs"]["total"]
       ELSE /\ row.capex_total = res["capex_breakdown"]["total"]
            /\ row.opex_total = res["opex_breakdown"]["total"]

C27_RowIsEvaluationOfBaseWithValue ==
    SweepReturned =>
        \A i \in 1..Len(outcome.value) :
            /\ TeaBeforeWith(frame.values[i]).ok
            /\ RowIsEvaluationOf(outcome.value[i], TeaBeforeWith(frame.values[i]).value)

\* a returned price sweep over two prices in descending order, entered with
\* results that are those of neither price, whose rows differ
C27_Witness ==
    /\ SweepReturned
    /\ frame.op = PriceSweep
    /\ Len(outcome.value) = 2
    /\ ~RLeq(frame.values[1], frame.values[2])
    /\ outcome.value[1].levelized_cost # outcome.value[2].levelized_cost
    /\ pre.results # InitialResults
    /\ pre.results["levelized_cost"] # outcome.value[1].levelized_cost

(* C28: self.results changes only in a step that runs an evaluation which  *)
(* succeeds, and then to the Results of that evaluation; so a setter       *)
(* leaves self.results as it was, whether it returns or raises, and a      *)
(* calculate_tea that raises leaves self.results and the five parameter    *)
(* dictionaries as they were.                                              *)
IsSetter == frame.op \in Setters

C28_ResultsChangeOnlyByEvaluation ==
    /\ []((Done /\ IsSetter) => results = pre.results)
    /\ []((Done /\ frame.op = "calculate_tea" /\ outcome.status = "raised") =>
             (results = pre.results /\ ParamsAsBefore))
    /\ [][results' # results => (Tea.ok /\ results' = Tea.value)]_vars

\* a setter has returned on an object whose results are those of the
\* configuration before it: an evaluation now would give other results
C28_Witness ==
    /\ Done /\ IsSetter
    /\ outcome.status = "returned"
    /\ ~ParamsAsBefore
    /\ results # InitialResults
    /\ TeaBefore.ok /\ results = TeaBefore.value
    /\ Tea.ok /\ Tea.value # results

(* C29: run_complete_analysis runs its steps in the order calculate_tea,   *)
(* price sweep, scale sweep, breakeven, print_results, each after the one  *)
(* before it has returned; when it returns, the tea_results of its package *)
(* are self.results and the evaluation of the dictionaries of its entry,   *)
(* which it leaves as they were, and the breakeven dict of the package is  *)
(* the one of that evaluation's levelized cost at the default price.       *)
IsRun == frame.op = "run_complete_analysis"

RunOrder ==
    <<"calculate_tea", "analyze_electricity_price_sensitivity",
      "analyze_scale_sensitivity", "calculate_breakeven_fuel_price", "print_results">>

C29_CompleteAnalysisReportsBase ==
    (Done /\ IsRun) =>
        /\ Len(frame.steps) \in 1..Len(RunOrder)
        /\ frame.steps = SubSeq(RunOrder, 1, Len(frame.steps))
        /\ outcome.status = "returned" =>
               /\ frame.steps = RunOrder
               /\ TeaBefore.ok
               /\ outcome.value.tea_results = TeaBefore.value
               /\ outcome.value.tea_results = results
               /\ ParamsAsBefore
               /\ outcome.value.breakeven_analysis =
                      BreakevenResults(TeaBefore.value["levelized_cost"],
                                       default_fuel_price)

\* a run has returned whose two frames have rows and whose price sweep ended
\* on a levelized cost other than the one of the package
C29_Witness ==
    /\ Done /\ IsRun
    /\ outcome.status = "returned"
    /\ Len(outcome.value.electricity_analysis) = MaxSweepLen
    /\ Len(outcome.value.scale_analysis) = MaxSweepLen
    /\ ~REq(outcome.value.electricity_analysis[MaxSweepLen].levelized_cost,
            outcome.value.tea_results["levelized_cost"])
    /\ ~REq(outcome.value.scale_analysis[MaxSweepLen].capex_total,
            outcome.value.tea_results["capex_breakdown"]["total"])

(* C30: the rows of a returned scale sweep, which are evaluations at       *)
(* capacities other than 0 of dictionaries that differ in the capacity     *)
(* only, all carry the same levelized_cost and the same capex_per_tpy;     *)
(* and the levelized cost is the one of the capacity of the sweep's entry  *)
(* when that evaluates.                                                    *)
ScaleReturned == SweepReturned /\ frame.op = ScaleSweep

=============================================================================
